---- MODULE Spec2Model ----
(***************************************************************************)
(* Reach: incremental collection and ratio derivation.                     *)
(*                                                                         *)
(* Tables are bags of rows (a row may occur more than once: the ORM models *)
(* declare no composite unique key, so uniqueness has to come from the     *)
(* collectors' check-then-insert code).  Provider frames are drawn row by  *)
(* row from small value sets.  A missing provider value is NaN, a database  *)
(* NULL is NULL.                                                           *)
(***************************************************************************)
EXTENDS Integers, Sequences, FiniteSets, Bags, TLC

\* ---------------------------------------------------------------- bounds
NumStocks == 2
SnapDays == 1
PriceDays == 2

\* get_stock_price: timedelta(days=365)
FullWindowDays == 365

Tickers == 1..NumStocks
\* What the exchange can list: its tickers up to some code.
Listings == {1..k : k \in 0..NumStocks}
Markets == {"KOSPI"}
SnapDates == 1..SnapDays

\* A number n is carried as Num(n); a missing provider cell is NaN and a
\* database NULL is NULL, both distinct from every number (0 included).
Num(n) == [v |-> n]
NaN == [nan |-> TRUE]
NULL == [null |-> TRUE]
\* float('inf'): not missing, and int() raises OverflowError on it
Inf == [inf |-> TRUE]

\* Values the market-cap source reports in one cell.
MarketCapCells == {NaN, Num(0), Num(5)}
TradingValueCells == {NaN, Num(0), Num(3)}
SharesCells == {Num(7)}

\* One daily bar as the price source reports it.  open/high/low/close go
\* through float(), volume through int(); close is NOT NULL in the schema,
\* so every bar carries one.
Bar(o, h, l, c, v) == [Open |-> o, High |-> h, Low |-> l, Close |-> c, Volume |-> v]
Bars == {Bar(Num(10), Num(12), Num(9), Num(11), Num(100)),
         Bar(Num(11), NaN, NaN, Num(13), NaN)}
\* The bars drawn in a batch run.
BatchBars == {Bar(Num(10), Num(12), Num(9), Num(11), Num(100))}
\* The same with a bar whose volume cannot be converted.
GapBars == BatchBars \cup {Bar(Num(10), Num(12), Num(9), Num(11), Inf)}

VARIABLES
    stocks,             \* Stock rows
    stock_market_data,  \* StockMarketData rows (bag)
    stock_prices,       \* StockPrice rows (bag)
    today,              \* datetime.now(), as a day number
    md,                 \* activation of save_market_data_to_db
    pr,                 \* last activation of save_stock_prices_to_db
    batch,              \* activation of collect_korea_batch
    financial_statements,   \* FinancialStatement rows
    financial_ratios,       \* FinancialRatio rows (bag)
    rc,                 \* last activation of calculate_and_save_for_stock
    eng,                \* one call of the ratio engine: arguments and result
    norm,               \* one call of parse_financial_data: rows and result
    tx,                 \* the session's transaction during a save operation
    fb,                 \* activation of FinancialBatchCollector.collect_batch
    qs,                 \* last call of the quality checker or the screener
    ov,                 \* two runs of collect_korea_daily, each in its session
    us                  \* activation of collect_us_batch

vars == <<stocks, stock_market_data, stock_prices, today, md, pr, batch,
          financial_statements, financial_ratios, rc, eng,
          norm, tx, fb, qs, ov, us>>
snapVars == <<stock_market_data, md>>
priceVars == <<stock_prices, today, pr>>
ratioVars == <<financial_statements, financial_ratios, rc>>
callVars == <<eng, norm, tx>>
svcVars == <<fb, qs, ov, us>>
exceptFb == <<qs, ov, us>>
exceptQs == <<fb, ov, us>>
exceptOv == <<fb, qs, us>>
exceptUs == <<fb, qs, ov>>

\* ------------------------------------------------------------ pandas / db
notna(x) == x # NaN
isna(x) == x = NaN

\* Mutant: the "x > 0" test is dropped, so a fetched 0 is stored as 0.
PositiveOrNull_KeepsZero(x) == IF notna(x) THEN Num(x.v) ELSE NULL

\* float(x) if (pd.notna(x) and x > 0) else None
PositiveOrNull(x) == IF notna(x) /\ x.v > 0 THEN Num(x.v) ELSE NULL

\* int(x) if pd.notna(x) else None
IntOrNull(x) == IF notna(x) THEN Num(x.v) ELSE NULL

Rows(table) == BagToSet(table)

\* db.query(Stock).filter(Stock.ticker == ticker, Stock.market == market)
StockIn(ticker, market) ==
    {s \in stocks : s.ticker = ticker /\ s.market = market}

\* db.query(StockMarketData).filter(stock_id == .., trade_date == ..)
MarketDataAt(stock_id, date) ==
    {r \in Rows(stock_market_data) : r.stock_id = stock_id /\ r.trade_date = date}

\* ---------------------------------------------------- save_stocks_to_db
\* One call: every listed ticker is updated in place or created.
SaveStocksRows(market, listing) ==
    {s \in stocks : s.ticker \notin listing}
        \cup {[ticker |-> t, market |-> market, country |-> "KR"] : t \in listing}

SaveStocks(market, listing) ==
    /\ md.pc # "rows"
    /\ stocks' = SaveStocksRows(market, listing)
    /\ UNCHANGED <<snapVars, priceVars, batch, ratioVars, callVars, svcVars>>

\* ------------------------------------------------ save_market_data_to_db
FrameRow(market_cap, trading_value, shares) ==
    [MarketCap |-> market_cap, TradingValue |-> trading_value,
     SharesOutstanding |-> shares]

NoRow == FrameRow(NaN, NaN, NaN)

MdIdle ==
    [pc |-> "idle", market |-> "KOSPI", date |-> 1, next |-> 1,
     saved_count |-> 0, skipped_count |-> 0, holiday_detected |-> FALSE,
     holiday_logs |-> 0, ret |-> 0,
     \* the loop variables "ticker, row" of the last iteration
     ticker |-> 0, row |-> NoRow,
     \* history, not program state: every row so far had market_cap = 0 and
     \* trading_value = 0; a row was created or updated by this call
     all_zero |-> TRUE, wrote |-> FALSE]

\* The call starts with a non-empty frame: locals are initialised, and the
\* frame's rows (one per ticker of the market, listed in the database or
\* not) follow in ticker order.
MdBegin(market, date) ==
    /\ md.pc # "rows"
    /\ md' = [MdIdle EXCEPT !.pc = "rows", !.market = market, !.date = date]
    /\ UNCHANGED <<stocks, stock_market_data, priceVars, batch, ratioVars, callVars, svcVars>>

\* Mutant: only the both-missing test is made.
HolidayRow_MissingOnly(market_cap, trading_value) ==
    isna(market_cap) /\ isna(trading_value)

\* Both zero (and both present), or both missing.
HolidayRow(market_cap, trading_value) ==
    \/ notna(market_cap) /\ notna(trading_value)
         /\ market_cap.v = 0 /\ trading_value.v = 0
    \/ isna(market_cap) /\ isna(trading_value)

\* market_data = {...}: the values written to the row.
MarketDataValues(market_cap, trading_value, shares) ==
    [market_cap |-> PositiveOrNull(market_cap),
     trading_value |-> PositiveOrNull(trading_value),
     shares_outstanding |-> IntOrNull(shares)]

MarketDataRow(stock_id, date, v) ==
    [stock_id |-> stock_id, trade_date |-> date,
     market_cap |-> v.market_cap, trading_value |-> v.trading_value,
     shares_outstanding |-> v.shares_outstanding]

\* if existing: setattr(...) else: db.add(StockMarketData(...))
UpsertMarketData(table, stock_id, date, v) ==
    LET existing == MarketDataAt(stock_id, date) IN
    IF existing # {}
    THEN {(table (-) SetToBag({e})) (+) SetToBag({MarketDataRow(stock_id, date, v)})
            : e \in existing}
    ELSE {table (+) SetToBag({MarketDataRow(stock_id, date, v)})}

\* market_cap > 0 and trading_value = 0: traded, but illiquid.
IlliquidRow(market_cap, trading_value) ==
    /\ notna(market_cap) /\ market_cap.v > 0
    /\ trading_value = Num(0)

\* get_market_data failed or found nothing: market_df.empty, return 0.
MdEmpty(market, date) ==
    /\ md.pc # "rows"
    /\ md' = [MdIdle EXCEPT !.pc = "returned", !.market = market, !.date = date]
    /\ UNCHANGED <<stocks, stock_market_data, priceVars, batch, ratioVars, callVars, svcVars>>

\* One iteration of "for ticker, row in market_df.iterrows()".
MdRow(ticker, market_cap, trading_value, shares) ==
    /\ md.pc = "rows" /\ md.next = ticker
    /\ LET seen == [md EXCEPT !.next = ticker + 1, !.ticker = ticker,
                       !.row = FrameRow(market_cap, trading_value, shares),
                       !.all_zero = @ /\ market_cap = Num(0)
                                        /\ trading_value = Num(0)]
       IN
       IF HolidayRow(market_cap, trading_value)
       THEN /\ md' = [seen EXCEPT !.holiday_detected = TRUE,
                         !.holiday_logs = @ + (IF md.holiday_detected THEN 0 ELSE 1),
                         !.skipped_count = @ + 1]
            /\ UNCHANGED stock_market_data
       ELSE IF StockIn(ticker, md.market) = {}
       THEN /\ md' = [seen EXCEPT !.skipped_count = @ + 1]
            /\ UNCHANGED stock_market_data
       ELSE /\ stock_market_data' \in
                 UpsertMarketData(stock_market_data, ticker, md.date,
                     MarketDataValues(market_cap, trading_value, shares))
            /\ md' = [seen EXCEPT !.saved_count = @ + 1, !.wrote = TRUE]
    /\ UNCHANGED <<stocks, priceVars, batch, ratioVars, callVars, svcVars>>

\* db.commit(); return saved_count.  The loop variables end with the call;
\* the counters stay readable as what the call printed.
MdReturn ==
    /\ md.pc = "rows" /\ md.next = NumStocks + 1
    /\ md' = [md EXCEPT !.pc = "returned", !.ret = md.saved_count,
                        !.next = 1, !.ticker = 0, !.row = NoRow]
    /\ UNCHANGED <<stocks, stock_market_data, priceVars, batch, ratioVars, callVars, svcVars>>

\* ---------------------------------------------- save_stock_prices_to_db
\* float(x) if pd.notna(x) else None
FloatOrNull(x) == IF notna(x) THEN Num(x.v) ELSE NULL

\* db.query(StockPrice).filter(stock_id == .., trade_date == ..)
PricesAt(table, stock_id, date) ==
    {r \in Rows(table) : r.stock_id = stock_id /\ r.trade_date = date}

\* StockPrice(...) / the fields set on an existing row; pykrx has no
\* adjusted close.
PriceRow(stock_id, date, bar) ==
    [stock_id |-> stock_id, trade_date |-> date,
     open |-> FloatOrNull(bar.Open), high |-> FloatOrNull(bar.High),
     low |-> FloatOrNull(bar.Low), close |-> FloatOrNull(bar.Close),
     volume |-> IntOrNull(bar.Volume), adjusted_close |-> NULL]

\* Mutant: the row is added without looking for an existing one.
UpsertPrice_AlwaysInsert(table, stock_id, date, bar) ==
    {table (+) SetToBag({PriceRow(stock_id, date, bar)})}

\* if existing: update in place; else: db.add(StockPrice(...))
UpsertPrice(table, stock_id, date, bar) ==
    LET existing == PricesAt(table, stock_id, date) IN
    IF existing # {}
    THEN {(table (-) SetToBag({e})) (+) SetToBag({PriceRow(stock_id, date, bar)})
            : e \in existing}
    ELSE {table (+) SetToBag({PriceRow(stock_id, date, bar)})}

Min(S) == CHOOSE x \in S : \A y \in S : x <= y
Max(S) == CHOOSE x \in S : \A y \in S : x >= y

\* int(row['Volume']) raises inside the row's try.
RowRaises(bar) == bar.Volume = Inf

\* The rows of the frame that are saved, the others being skipped by
\* "except Exception: continue".
SavedDates(df) == {d \in DOMAIN df : ~RowRaises(df[d])}

\* for date_idx, row in price_df.iterrows(): the tables the loop can leave,
\* the frame's dates taken in ascending order.
RECURSIVE SavePriceRows(_, _, _, _)
SavePriceRows(table, stock_id, df, dates) ==
    IF dates = {} THEN {table}
    ELSE LET d == Min(dates) IN
         IF RowRaises(df[d])
         THEN SavePriceRows(table, stock_id, df, dates \ {d})
         ELSE UNION {SavePriceRows(t, stock_id, df, dates \ {d})
                       : t \in UpsertPrice(table, stock_id, d, df[d])}

\* get_stock_price's request: start_date defaults to a year before now,
\* end_date to now; both are sent as calendar days.
RequestFrom(start_date) ==
    IF start_date = NULL THEN today - FullWindowDays ELSE start_date.v
RequestTo == today

\* What the price source can answer to a request: it fails, or it returns
\* bars (possibly none) for days of the requested range up to today.
NoFrame == <<>>

Answers(from, to, bars) ==
    {[raised |-> TRUE, df |-> NoFrame]} \cup
    {[raised |-> FALSE, df |-> f] :
        f \in UNION {[days -> bars] :
                        days \in SUBSET {d \in 1..today : from <= d /\ d <= to}}}

PrIdle ==
    [pc |-> "idle", ticker |-> 0, fromdate |-> 0, todate |-> 0,
     outcome |-> "none", price_df |-> NoFrame, existing |-> FALSE, ret |-> 0]

\* save_stock_prices_to_db once the stock is found: the effect on
\* (stock_prices, pr).
SaveFetched(ticker, start_date, answer) ==
    LET asked == [PrIdle EXCEPT !.pc = "returned", !.ticker = ticker,
                                !.fromdate = RequestFrom(start_date),
                                !.todate = RequestTo]
        \* except Exception: return pd.DataFrame()
        price_df == IF answer.raised THEN NoFrame ELSE answer.df
    IN
    IF DOMAIN price_df = {}
    THEN /\ pr' = [asked EXCEPT
                     !.outcome = IF answer.raised THEN "error" ELSE "empty"]
         /\ UNCHANGED stock_prices
    ELSE /\ stock_prices' \in
              SavePriceRows(stock_prices, ticker, price_df, DOMAIN price_df)
         /\ pr' = [asked EXCEPT
               !.outcome = "saved", !.price_df = price_df,
               !.existing = PricesAt(stock_prices, ticker,
                                     Max(DOMAIN price_df)) # {},
               !.ret = Cardinality(SavedDates(price_df))]

\* The effect of one call on (stock_prices, pr).
SaveStockPrices(ticker, start_date, answer) ==
    IF {s \in stocks : s.ticker = ticker} = {}
    THEN /\ pr' = [PrIdle EXCEPT !.pc = "returned", !.ticker = ticker,
                                 !.outcome = "no_stock"]
         /\ UNCHANGED stock_prices
    ELSE SaveFetched(ticker, start_date, answer)

\* POST /collect/prices/{ticker}: one call with the caller's start date.
PrCollect(ticker, start_date, answer) ==
    /\ batch.pc # "loop"
    /\ answer \in Answers(RequestFrom(start_date), RequestTo, Bars)
    /\ SaveStockPrices(ticker, start_date, answer)
    /\ UNCHANGED <<stocks, snapVars, today, batch, ratioVars, callVars, svcVars>>

\* A day passes.
Tick(lastDay) ==
    /\ today < lastDay
    /\ today' = today + 1
    /\ UNCHANGED <<stocks, snapVars, stock_prices, pr, batch, ratioVars, callVars, svcVars>>

\* ------------------------------------------------ FinancialRatioCalculator
\* A float the engine returns, kept exact as a fraction with den > 0.
Frac(num, den) == [num |-> num, den |-> den]

\* Python truth of an optional number: None and 0 are false.
Truthy(x) == x # NULL /\ x.v # 0

\* "if not d or d <= 0: return None", d being an optional number
NoDivisor(d) == ~Truthy(d) \/ d.v <= 0

PerMax == 10000
PerMin == -1000
PbrMax == 1000
PbrMin == -100
PsrMax == 1000
PsrMin == -100

\* (n / d) * 100 when d is usable
Percent(n, d) == IF NoDivisor(d) THEN NULL ELSE Frac(n.v * 100, d.v)

\* Bounded with the two limits themselves suppressed
Bounded_Open(n, d, lo, hi) ==
    IF NoDivisor(d) THEN NULL
    ELSE IF n.v >= hi * d.v \/ n.v <= lo * d.v THEN NULL
    ELSE Frac(n.v, d.v)

\* n / d when d is usable and the quotient lies in [lo, hi]
Bounded(n, d, lo, hi) ==
    IF NoDivisor(d) THEN NULL
    ELSE IF n.v > hi * d.v \/ n.v < lo * d.v THEN NULL
    ELSE Frac(n.v, d.v)

calculate_roe(net_income, total_equity) == Percent(net_income, total_equity)
calculate_roa(net_income, total_assets) == Percent(net_income, total_assets)
calculate_operating_margin(operating_income, revenue) ==
    Percent(operating_income, revenue)
calculate_net_margin(net_income, revenue) == Percent(net_income, revenue)
calculate_debt_ratio(total_liabilities, total_equity) ==
    Percent(total_liabilities, total_equity)
calculate_per(market_cap, net_income) ==
    Bounded(market_cap, net_income, PerMin, PerMax)
calculate_pbr(market_cap, total_equity) ==
    Bounded(market_cap, total_equity, PbrMin, PbrMax)
calculate_psr(market_cap, revenue) ==
    Bounded(market_cap, revenue, PsrMin, PsrMax)

\* Day numbers count from 1 January of fiscal year 1; years have 365 days.
DaysInYear == 365
Q1EndDay == 90
Q2EndDay == 181
Q3EndDay == 273
\* timedelta(days=90)
SnapshotWindowDays == 90

\* target_date: 31 December for an annual statement, the quarter's last day
\* for quarters 1 to 3, 31 December for any other quarter number.
TargetDate(fiscal_year, fiscal_quarter) ==
    (fiscal_year - 1) * DaysInYear +
        (IF fiscal_quarter = Num(1) THEN Q1EndDay
         ELSE IF fiscal_quarter = Num(2) THEN Q2EndDay
         ELSE IF fiscal_quarter = Num(3) THEN Q3EndDay
         ELSE DaysInYear)

\* ResolvedSnapshots without the lower end of the window
ResolvedSnapshots_NoWindow(stock_id, target_date) ==
    LET usable == {r \in Rows(stock_market_data) :
                      /\ r.stock_id = stock_id
                      /\ r.trade_date <= target_date
                      /\ r.market_cap # NULL /\ r.market_cap.v > 0}
    IN {r \in usable : \A o \in usable : o.trade_date <= r.trade_date}

\* The StockMarketData rows the query can return with .first(): the rows of
\* the newest trade_date among those of the stock within the 90 days up to
\* target_date that have a market_cap above 0.
ResolvedSnapshots(stock_id, target_date) ==
    LET usable == {r \in Rows(stock_market_data) :
                      /\ r.stock_id = stock_id
                      /\ r.trade_date <= target_date
                      /\ r.trade_date >= target_date - SnapshotWindowDays
                      /\ r.market_cap # NULL /\ r.market_cap.v > 0}
    IN {r \in usable : \A o \in usable : o.trade_date <= r.trade_date}

\* float(x) if x else None
FloatIfTruthy(x) == IF Truthy(x) THEN x ELSE NULL

\* Step 2 of calculate_ratios_for_statement: the market_cap used for a
\* stock and fiscal period.
ResolveSnapshot ==
    /\ eng.call = "resolve" /\ ~eng.done
    /\ \E r \in IF ResolvedSnapshots(eng.stock_id,
                       TargetDate(eng.fiscal_year, eng.fiscal_quarter)) = {}
                 THEN {NULL}
                 ELSE ResolvedSnapshots(eng.stock_id,
                       TargetDate(eng.fiscal_year, eng.fiscal_quarter)) :
          eng' = [eng EXCEPT
                    !.done = TRUE,
                    !.market_cap = IF r = NULL THEN NULL
                                   ELSE FloatIfTruthy(r.market_cap)]
    /\ UNCHANGED <<stocks, snapVars, priceVars, batch, ratioVars, norm, tx, svcVars>>

\* Ratios with the whole computation abandoned when no market_cap was
\* resolved
Ratios_NeedsSnapshot(statement, market_cap) ==
    LET revenue == FloatIfTruthy(statement.revenue)
        operating_income == FloatIfTruthy(statement.operating_income)
        net_income == FloatIfTruthy(statement.net_income)
        total_assets == FloatIfTruthy(statement.total_assets)
        total_liabilities == FloatIfTruthy(statement.total_liabilities)
        total_equity == FloatIfTruthy(statement.total_equity)
        All(a, b) == Truthy(a) /\ Truthy(b) /\ Truthy(market_cap)
    IN [roe |-> IF All(net_income, total_equity)
                THEN calculate_roe(net_income, total_equity) ELSE NULL,
        roa |-> IF All(net_income, total_assets)
                THEN calculate_roa(net_income, total_assets) ELSE NULL,
        operating_margin |->
                IF All(operating_income, revenue)
                THEN calculate_operating_margin(operating_income, revenue)
                ELSE NULL,
        net_margin |-> IF All(net_income, revenue)
                THEN calculate_net_margin(net_income, revenue) ELSE NULL,
        debt_ratio |-> IF All(total_liabilities, total_equity)
                THEN calculate_debt_ratio(total_liabilities, total_equity)
                ELSE NULL,
        per |-> IF All(market_cap, net_income)
                THEN calculate_per(market_cap, net_income) ELSE NULL,
        pbr |-> IF All(market_cap, total_equity)
                THEN calculate_pbr(market_cap, total_equity) ELSE NULL,
        psr |-> IF All(market_cap, revenue)
                THEN calculate_psr(market_cap, revenue) ELSE NULL]

\* Step 4 of calculate_ratios_for_statement: the eight ratios of a statement
\* and an optional market_cap.
Ratios(statement, market_cap) ==
    LET revenue == FloatIfTruthy(statement.revenue)
        operating_income == FloatIfTruthy(statement.operating_income)
        net_income == FloatIfTruthy(statement.net_income)
        total_assets == FloatIfTruthy(statement.total_assets)
        total_liabilities == FloatIfTruthy(statement.total_liabilities)
        total_equity == FloatIfTruthy(statement.total_equity)
        Both(a, b) == Truthy(a) /\ Truthy(b)
    IN [roe |-> IF Both(net_income, total_equity)
                THEN calculate_roe(net_income, total_equity) ELSE NULL,
        roa |-> IF Both(net_income, total_assets)
                THEN calculate_roa(net_income, total_assets) ELSE NULL,
        operating_margin |->
                IF Both(operating_income, revenue)
                THEN calculate_operating_margin(operating_income, revenue)
                ELSE NULL,
        net_margin |-> IF Both(net_income, revenue)
                THEN calculate_net_margin(net_income, revenue) ELSE NULL,
        debt_ratio |-> IF Both(total_liabilities, total_equity)
                THEN calculate_debt_ratio(total_liabilities, total_equity)
                ELSE NULL,
        per |-> IF Both(market_cap, net_income)
                THEN calculate_per(market_cap, net_income) ELSE NULL,
        pbr |-> IF Both(market_cap, total_equity)
                THEN calculate_pbr(market_cap, total_equity) ELSE NULL,
        psr |-> IF Both(market_cap, revenue)
                THEN calculate_psr(market_cap, revenue) ELSE NULL]

\* No engine call: the state of every run that is not about the engine.
EngIdle == [call |-> "none", done |-> FALSE]

\* The three valuation functions called with one market_cap and one
\* denominator.
CallValuation ==
    /\ eng.call = "valuation" /\ ~eng.done
    /\ eng' = [eng EXCEPT
                  !.done = TRUE,
                  !.per = calculate_per(eng.market_cap, eng.denominator),
                  !.pbr = calculate_pbr(eng.market_cap, eng.denominator),
                  !.psr = calculate_psr(eng.market_cap, eng.denominator)]
    /\ UNCHANGED <<stocks, snapVars, priceVars, batch, ratioVars, norm, tx, svcVars>>

\* Steps 3 and 4 of calculate_ratios_for_statement on a statement row and
\* the market_cap that step 2 resolved.
CallRatios ==
    /\ eng.call = "statement" /\ ~eng.done
    /\ eng' = [eng EXCEPT !.done = TRUE,
                          !.ratios = Ratios(eng.statement, eng.market_cap)]
    /\ UNCHANGED <<stocks, snapVars, priceVars, batch, ratioVars, norm, tx, svcVars>>

\* report_type from fiscal_quarter
ReportType(fiscal_quarter) ==
    IF fiscal_quarter = Num(1) THEN "Q1"
    ELSE IF fiscal_quarter = Num(2) THEN "Q2"
    ELSE IF fiscal_quarter = Num(3) THEN "Q3"
    ELSE "annual"

RatioFields ==
    {"roe", "roa", "operating_margin", "net_margin", "debt_ratio",
     "per", "pbr", "psr"}

\* Decimal(str(value)) in a DECIMAL(10, 4) column: the value in units of
\* 0.0001, rounded half away from zero.
Decimal4(q) ==
    LET a == (IF q.num < 0 THEN -q.num ELSE q.num) * 20000 + q.den
        r == a \div (2 * q.den)
    IN Num(IF q.num < 0 THEN -r ELSE r)

RatiosAt(table, stock_id, fiscal_date, report_type) ==
    {r \in Rows(table) : /\ r.stock_id = stock_id
                         /\ r.fiscal_date = fiscal_date
                         /\ r.report_type = report_type}

\* FinancialRatio(...): every ratio as a Decimal, or None.
NewRatioRow(stock_id, fiscal_date, report_type, ratios) ==
    [f \in RatioFields |->
        IF ratios[f] # NULL THEN Decimal4(ratios[f]) ELSE NULL]
    @@ [stock_id |-> stock_id, fiscal_date |-> fiscal_date,
        report_type |-> report_type]

\* Mutant: the update adds the new value to the stored one.
UpdatedRatioRow_Accumulate(existing, ratios) ==
    [f \in DOMAIN existing |->
        IF f \in RatioFields /\ ratios[f] # NULL
        THEN (IF existing[f] = NULL THEN Decimal4(ratios[f])
              ELSE Num(existing[f].v + Decimal4(ratios[f]).v))
        ELSE existing[f]]

\* for key, value in ratio_data.items(): if value is not None: setattr(..)
UpdatedRatioRow(existing, ratios) ==
    [f \in DOMAIN existing |->
        IF f \in RatioFields /\ ratios[f] # NULL
        THEN Decimal4(ratios[f]) ELSE existing[f]]

\* Mutant: the row is added without looking for an existing one.
SaveRatios_AlwaysInsert(table, stock_id, fiscal_date, fiscal_quarter, ratios) ==
    {table (+) SetToBag({NewRatioRow(stock_id, fiscal_date,
                                     ReportType(fiscal_quarter), ratios)})}

\* save_ratios_to_db: the tables the call can leave.
SaveRatios(table, stock_id, fiscal_date, fiscal_quarter, ratios) ==
    LET report_type == ReportType(fiscal_quarter)
        existing == RatiosAt(table, stock_id, fiscal_date, report_type)
    IN IF existing # {}
       THEN {(table (-) SetToBag({e})) (+) SetToBag({UpdatedRatioRow(e, ratios)})
               : e \in existing}
       ELSE {table (+) SetToBag({NewRatioRow(stock_id, fiscal_date,
                                             report_type, ratios)})}

\* market_cap of the row the snapshot query returns, None without a row.
MarketCaps(stock_id, target_date) ==
    IF ResolvedSnapshots(stock_id, target_date) = {} THEN {NULL}
    ELSE {r.market_cap : r \in ResolvedSnapshots(stock_id, target_date)}

\* The statements of a stock, optionally of one fiscal year, in the order
\* of their period ends (the rows of distinct periods feed distinct
\* FinancialRatio keys, so the order of query.all() does not matter).
StatementsOf(stock_id, fiscal_year) ==
    {st \in financial_statements :
        /\ st.stock_id = stock_id
        /\ (Truthy(fiscal_year) => st.fiscal_year = fiscal_year.v)}

EarliestPeriod(sts) ==
    CHOOSE st \in sts : \A o \in sts :
        TargetDate(st.fiscal_year, st.fiscal_quarter)
            <= TargetDate(o.fiscal_year, o.fiscal_quarter)

\* The loop of calculate_and_save_for_stock over the statements sts: the
\* (table, ratios per statement, rows found existing) it can end with.
RECURSIVE CalculateAndSave(_, _, _)
CalculateAndSave(table, stock_id, sts) ==
    IF sts = {} THEN {[table |-> table, out |-> <<>>, found |-> 0]}
    ELSE LET st == EarliestPeriod(sts)
             target_date == TargetDate(st.fiscal_year, st.fiscal_quarter)
             found == IF RatiosAt(table, stock_id, target_date,
                                  ReportType(st.fiscal_quarter)) # {}
                      THEN 1 ELSE 0
         IN UNION { UNION { {[table |-> rest.table,
                              out |-> <<Ratios(st, mc)>> \o rest.out,
                              found |-> found + rest.found]
                               : rest \in CalculateAndSave(t, stock_id, sts \ {st})}
                       : t \in SaveRatios(table, stock_id, target_date,
                                          st.fiscal_quarter, Ratios(st, mc))}
                    : mc \in MarketCaps(stock_id, target_date)}

RcIdle ==
    [pc |-> "idle", ticker |-> 0, fiscal_year |-> NULL, status |-> "none",
     total_statements |-> 0, ratios_calculated |-> 0, ratios_saved |-> 0,
     ratios_failed |-> 0,
     \* the ratios dictionaries of the statements, in processing order
     out |-> <<>>,
     \* history, not program state: FinancialRatio rows the call found
     \* existing; the call repeated the one before it with no statement
     \* changed in between; no statement has changed since the call
     found |-> 0, repeat |-> FALSE, current |-> FALSE]

\* POST /financial/ratios/calculate/{ticker}
CalculateAndSaveForStock(ticker, fiscal_year) ==
    LET call == [RcIdle EXCEPT !.pc = "returned", !.ticker = ticker,
                               !.fiscal_year = fiscal_year, !.current = TRUE,
                               !.repeat = /\ rc.pc = "returned" /\ rc.current
                                          /\ rc.status = "success"
                                          /\ rc.ticker = ticker
                                          /\ rc.fiscal_year = fiscal_year]
        sts == StatementsOf(ticker, fiscal_year)
    IN
    /\ IF {s \in stocks : s.ticker = ticker} = {} \/ sts = {}
       THEN /\ rc' = [call EXCEPT !.status = "error"]
            /\ UNCHANGED financial_ratios
       ELSE \E end \in CalculateAndSave(financial_ratios, ticker, sts) :
            /\ financial_ratios' = end.table
            /\ rc' = [call EXCEPT !.status = "success",
                                  !.total_statements = Cardinality(sts),
                                  !.ratios_calculated = Len(end.out),
                                  !.ratios_saved = Len(end.out),
                                  !.out = end.out, !.found = end.found]
    /\ UNCHANGED <<stocks, snapVars, priceVars, batch, financial_statements,
                   callVars, svcVars>>

\* --------------------------------------------------- parse_financial_data
\* Account names stand for the provider's Korean names: OperatingRevenue
\* and OperatingProfit are the names of the exact mapping for revenue and
\* operating_income, NetIncomeOwners the one for net_income, TotalAssets
\* the one for total_assets; OtherOperatingRevenue, OperatingProfitLoss
\* and NetIncome merely contain a keyword.
ResultFields ==
    {"revenue", "operating_income", "net_income", "ebitda", "total_assets",
     "total_liabilities", "total_equity", "operating_cash_flow",
     "investing_cash_flow", "financing_cash_flow"}

\* result as initialised: every field None
EmptyResult == [f \in ResultFields |-> NULL]

\* exact_mapping.get((sj_div, account_nm)), "none" without an entry
ExactMapping(sj_div, account_nm) ==
    CASE sj_div = "IS" /\ account_nm = "OperatingRevenue" -> "revenue"
      [] sj_div = "IS" /\ account_nm = "OperatingProfit" -> "operating_income"
      [] sj_div = "IS" /\ account_nm = "NetIncomeOwners" -> "net_income"
      [] sj_div = "BS" /\ account_nm = "TotalAssets" -> "total_assets"
      [] OTHER -> "none"

\* keyword in account_nm, the keywords being named by their fields
Contains(account_nm, keyword) ==
    CASE keyword = "revenue" ->
            account_nm \in {"OperatingRevenue", "OtherOperatingRevenue"}
      [] keyword = "operating_income" ->
            account_nm \in {"OperatingProfit", "OperatingProfitLoss"}
      [] keyword = "net_income" ->
            account_nm \in {"NetIncomeOwners", "NetIncome"}
      [] OTHER -> FALSE

\* float(amount_str.replace(',', '')): the number, or the ValueError
ValueError == [raised |-> "ValueError"]
Amount(amount_str) ==
    CASE amount_str = "1,000" -> Num(1000)
      [] amount_str = "250" -> Num(250)
      [] amount_str = "-30" -> Num(-30)
      [] OTHER -> ValueError

\* Assign with a failed parse stored as zero
Assign_ZeroOnFailure(result, field_name, amount_str) ==
    IF Amount(amount_str) = ValueError
    THEN [result EXCEPT ![field_name] = Num(0)]
    ELSE [result EXCEPT ![field_name] = Amount(amount_str)]

\* try: result[field_name] = float(...)  except: pass
Assign(result, field_name, amount_str) ==
    IF Amount(amount_str) = ValueError THEN result
    ELSE [result EXCEPT ![field_name] = Amount(amount_str)]

\* FallbackCategory with every category admitted
FallbackCategory_Any(sj_div) == TRUE

\* if sj_div == 'IS'
FallbackCategory(sj_div) == sj_div = "IS"

\* Keyword with the test for an unset field dropped
Keyword_Overwrites(result, account_nm) ==
    IF Contains(account_nm, "revenue") THEN "revenue"
    ELSE IF Contains(account_nm, "operating_income") THEN "operating_income"
    ELSE IF Contains(account_nm, "net_income") THEN "net_income"
    ELSE "none"

\* The branch the if / elif chain of the fallback takes
Keyword(result, account_nm) ==
    IF Contains(account_nm, "revenue") /\ result.revenue = NULL
    THEN "revenue"
    ELSE IF Contains(account_nm, "operating_income")
            /\ result.operating_income = NULL
    THEN "operating_income"
    ELSE IF Contains(account_nm, "net_income") /\ result.net_income = NULL
    THEN "net_income"
    ELSE "none"

\* One iteration of the loop over df.iterrows()
ParseRow(result, row) ==
    IF ExactMapping(row.sj_div, row.account_nm) # "none"
    THEN Assign(result, ExactMapping(row.sj_div, row.account_nm),
                row.thstrm_amount)
    ELSE IF FallbackCategory(row.sj_div)
            /\ Keyword(result, row.account_nm) # "none"
    THEN Assign(result, Keyword(result, row.account_nm), row.thstrm_amount)
    ELSE result

\* The loop over the rows of df, from result
RECURSIVE ParseRows(_, _)
ParseRows(result, df) ==
    IF df = <<>> THEN result
    ELSE ParseRows(ParseRow(result, Head(df)), Tail(df))

parse_financial_data(df) == ParseRows(EmptyResult, df)

NormIdle == [done |-> FALSE]

ParseFinancialData ==
    /\ ~norm.done /\ norm # NormIdle
    /\ norm' = [norm EXCEPT !.done = TRUE,
                            !.result = parse_financial_data(norm.df)]
    /\ UNCHANGED <<stocks, snapVars, priceVars, batch, ratioVars, eng, tx, svcVars>>

\* ------------------------------------------------- save_financial_to_db
StatementFields ==
    {"revenue", "operating_income", "net_income", "total_assets",
     "total_liabilities", "total_equity"}

\* What parse_financial_data can hand over for a report.
Healthy ==
    [revenue |-> Num(200), operating_income |-> Num(40), net_income |-> Num(20),
     total_assets |-> Num(300), total_liabilities |-> Num(200),
     total_equity |-> Num(200)]
Loss ==
    [revenue |-> Num(200), operating_income |-> Num(0), net_income |-> Num(-30),
     total_assets |-> Num(300), total_liabilities |-> Num(250),
     total_equity |-> Num(50)]
FinancialData == {Healthy, Loss}

StatementRow(stock_id, fiscal_year, fiscal_quarter, financial_data) ==
    financial_data @@ [stock_id |-> stock_id, fiscal_year |-> fiscal_year,
                       fiscal_quarter |-> fiscal_quarter]

StatementsAt(stock_id, fiscal_year, fiscal_quarter) ==
    {st \in financial_statements : /\ st.stock_id = stock_id
                                   /\ st.fiscal_year = fiscal_year
                                   /\ st.fiscal_quarter = fiscal_quarter}

\* The update branch of save_financial_to_db: the statement of the period
\* exists and takes every value of the report that is not None.
SaveFinancialUpdate(ticker, year, quarter, financial_data) ==
    /\ {s \in stocks : s.ticker = ticker} # {}
    /\ \E existing \in StatementsAt(ticker, year, quarter) :
          financial_statements' =
             (financial_statements \ {existing}) \cup
                {[f \in DOMAIN existing |->
                     IF f \in StatementFields /\ financial_data[f] # NULL
                     THEN financial_data[f] ELSE existing[f]]}
    /\ rc' = [rc EXCEPT !.current = FALSE]
    /\ UNCHANGED <<stocks, snapVars, priceVars, batch, financial_ratios,
                   callVars, svcVars>>

\* ------------------------------------------------------ commit discipline
\* The transaction of the session during one save operation of the Korean
\* collector, its rows reduced to whether they were saved or skipped.
CommitEvery == 100

TxIdle == [pc |-> "idle", op |-> "none", saved_count |-> 0, uncommitted |-> 0]

SaveOperations ==
    {"save_stocks_to_db", "save_market_data_to_db", "save_stock_prices_to_db"}

\* The operations with 'if saved_count % 100 == 0: db.commit()' in the loop
CommitsInLoop(op) == op \in {"save_stocks_to_db", "save_market_data_to_db"}

\* The frame is not empty and the loop is entered.
TxBegin(op) ==
    /\ tx.pc \in {"idle", "returned"}
    /\ tx' = [pc |-> "loop", op |-> op, saved_count |-> 0, uncommitted |-> 0]
    /\ UNCHANGED <<stocks, snapVars, priceVars, batch, ratioVars, eng, norm, svcVars>>

\* One row: the upsert and saved_count += 1, or the row is skipped
\* (holiday row, unknown stock, exception).
TxRow(saved, maxFrame) ==
    /\ tx.pc = "loop"
    /\ tx.saved_count < maxFrame
    /\ tx' = IF saved
             THEN [tx EXCEPT !.pc = "counted",
                             !.saved_count = @ + 1, !.uncommitted = @ + 1]
             ELSE tx
    /\ UNCHANGED <<stocks, snapVars, priceVars, batch, ratioVars, eng, norm, svcVars>>

\* The end of the iteration of a saved row: the commit of a full chunk
TxChunk ==
    /\ tx.pc = "counted"
    /\ tx' = [tx EXCEPT
                 !.pc = "loop",
                 !.uncommitted = IF CommitsInLoop(tx.op)
                                    /\ tx.saved_count % CommitEvery = 0
                                 THEN 0 ELSE @]
    /\ UNCHANGED <<stocks, snapVars, priceVars, batch, ratioVars, eng, norm, svcVars>>

\* The frame is exhausted: db.commit() and return saved_count
TxReturn ==
    /\ tx.pc = "loop"
    /\ tx' = [tx EXCEPT !.pc = "returned", !.uncommitted = 0]
    /\ UNCHANGED <<stocks, snapVars, priceVars, batch, ratioVars, eng, norm, svcVars>>

\* ---------------------------------------------------- collect_korea_batch
\* Mutant: the earliest persisted trade_date is taken for the latest.
LastCollectionDate_Earliest(ticker) ==
    LET dates == {r.trade_date : r \in {x \in Rows(stock_prices) : x.stock_id = ticker}}
    IN IF {s \in stocks : s.ticker = ticker} = {} \/ dates = {}
       THEN NULL ELSE Num(Min(dates))

\* get_last_collection_date: the trade_date of the stock's newest price row.
LastCollectionDate(ticker) ==
    LET dates == {r.trade_date : r \in {x \in Rows(stock_prices) : x.stock_id = ticker}}
    IN IF {s \in stocks : s.ticker = ticker} = {} \/ dates = {}
       THEN NULL ELSE Num(Max(dates))

\* start_date = last_date + timedelta(days=1) in incremental mode when a
\* price row exists; None otherwise.
StartDate(incremental, last_date) ==
    IF incremental /\ last_date # NULL THEN Num(last_date.v + 1) ELSE NULL

RECURSIVE Ascending(_)
Ascending(S) == IF S = {} THEN <<>> ELSE <<Min(S)>> \o Ascending(S \ {Min(S)})

\* db.query(Stock).filter(market, country == 'KR').all(), then
\* stocks[:max_stocks] when max_stocks is given and not 0.
StocksToProcess(rows, market, max_stocks) ==
    LET found == Ascending({s.ticker : s \in {x \in rows : x.market = market
                                                      /\ x.country = "KR"}})
    IN IF max_stocks # NULL /\ max_stocks.v # 0 /\ max_stocks.v < Len(found)
       THEN SubSeq(found, 1, max_stocks.v) ELSE found

BatchIdle ==
    [pc |-> "idle", incremental |-> TRUE, queue |-> <<>>, idx |-> 0,
     stocks_processed |-> 0, stocks_success |-> 0, stocks_failed |-> 0,
     prices_saved |-> 0, market_data_saved |-> 0,
     \* len(results['errors'])
     errors |-> 0,
     \* history, not program state: fetches of this run the source failed
     provider_errors |-> 0]

\* Steps 1 and 2 and the query of step 3.  In a batch run the snapshot
\* source has nothing for the day (market_df.empty, 0 records).
BatchBegin(market, incremental, max_stocks, listing) ==
    /\ batch.pc # "loop" /\ md.pc # "rows"
    /\ stocks' = SaveStocksRows(market, listing)
    /\ md' = [MdIdle EXCEPT !.pc = "returned", !.market = market, !.date = today]
    /\ batch' = [BatchIdle EXCEPT
                   !.pc = "loop", !.incremental = incremental,
                   !.market_data_saved = md'.ret,
                   !.queue = StocksToProcess(stocks', market, max_stocks)]
    /\ UNCHANGED <<stock_market_data, priceVars, ratioVars, callVars, svcVars>>

\* One iteration of "for idx, stock in enumerate(stocks, 1)".  db_fails: the
\* database raises on the iteration's first query, the only way into the
\* loop's except branch; bars: the bars the price source draws from.
BatchStockWith(db_fails, bars) ==
    /\ batch.pc = "loop" /\ batch.idx < Len(batch.queue)
    /\ LET ticker == batch.queue[batch.idx + 1]
           start_date == StartDate(batch.incremental, LastCollectionDate(ticker))
           counted == [batch EXCEPT !.idx = @ + 1, !.stocks_processed = @ + 1]
       IN
       IF db_fails
       THEN /\ batch' = [counted EXCEPT !.stocks_failed = @ + 1,
                                        !.errors = @ + 1]
            /\ UNCHANGED <<stock_prices, pr>>
       ELSE \E answer \in Answers(RequestFrom(start_date), RequestTo, bars) :
            /\ SaveStockPrices(ticker, start_date, answer)
            /\ batch' = [counted EXCEPT
                           !.prices_saved = @ + pr'.ret,
                           !.stocks_success = @ + 1,
                           !.provider_errors = @ + (IF answer.raised THEN 1 ELSE 0)]
    /\ UNCHANGED <<stocks, snapVars, today, ratioVars, callVars, svcVars>>

\* BatchStock with an empty answer of the price source counted as an error
BatchStock_EmptyIsFailure(db_fails) ==
    /\ batch.pc = "loop" /\ batch.idx < Len(batch.queue)
    /\ LET ticker == batch.queue[batch.idx + 1]
           start_date == StartDate(batch.incremental, LastCollectionDate(ticker))
           counted == [batch EXCEPT !.idx = @ + 1, !.stocks_processed = @ + 1]
       IN
       IF db_fails
       THEN /\ batch' = [counted EXCEPT !.stocks_failed = @ + 1,
                                        !.errors = @ + 1]
            /\ UNCHANGED <<stock_prices, pr>>
       ELSE \E answer \in Answers(RequestFrom(start_date), RequestTo, BatchBars) :
            /\ SaveStockPrices(ticker, start_date, answer)
            /\ batch' = IF pr'.outcome = "empty"
                        THEN [counted EXCEPT !.stocks_failed = @ + 1,
                                             !.errors = @ + 1]
                        ELSE [counted EXCEPT
                           !.prices_saved = @ + pr'.ret,
                           !.stocks_success = @ + 1,
                           !.provider_errors = @ + (IF answer.raised THEN 1 ELSE 0)]
    /\ UNCHANGED <<stocks, snapVars, today, ratioVars, callVars, svcVars>>

BatchStock(db_fails) == BatchStockWith(db_fails, BatchBars)

\* The loop is over: return results.
BatchReturn ==
    /\ batch.pc = "loop" /\ batch.idx = Len(batch.queue)
    /\ batch' = [batch EXCEPT !.pc = "returned"]
    /\ UNCHANGED <<stocks, snapVars, priceVars, ratioVars, callVars, svcVars>>

\* ------------------------------------------- FinancialBatchCollector
MaxYear == 2
BatchYears == 1..MaxYear

StatementsIn(table, stock_id, fiscal_year, fiscal_quarter) ==
    {st \in table : /\ st.stock_id = stock_id
                    /\ st.fiscal_year = fiscal_year
                    /\ st.fiscal_quarter = fiscal_quarter}

\* get_latest_financial_year: func.max(fiscal_year) over the stock's annual
\* statements (fiscal_quarter IS NULL), None when it has none.
get_latest_financial_year(table, stock_id) ==
    LET years == {st.fiscal_year :
                     st \in {x \in table : /\ x.stock_id = stock_id
                                           /\ x.fiscal_quarter = NULL}}
    IN  IF years = {} THEN NULL ELSE Num(Max(years))

\* What one call of save_financial_to_db meets: the disclosure service has
\* no report (get_corp_code or get_financial_statement returns None), it
\* has a report, or the session's query raises.
NoReport == [kind |-> "unavailable"]
Report(financial_data) == [kind |-> "report", data |-> financial_data]
DbError == [kind |-> "db_error"]
YearAnswers == {NoReport, Report(Healthy), DbError}

\* save_financial_to_db(db, ticker, year) for the annual report: the result,
\* whether the disclosure service was called, and the table afterwards.  A
\* raising stock query is caught before any request; with a report, an
\* existing row takes the values that are not None, and for a new row the
\* constructor is given statement_type, which FinancialStatement does not
\* declare: it raises, the session is rolled back and the result is False.
save_financial_to_db(table, ticker, year, answer) ==
    IF answer = DbError
    THEN [ok |-> FALSE, called |-> FALSE, table |-> table]
    ELSE IF {s \in stocks : s.ticker = ticker} = {}
    THEN [ok |-> FALSE, called |-> FALSE, table |-> table]
    ELSE IF answer = NoReport
    THEN [ok |-> FALSE, called |-> TRUE, table |-> table]
    ELSE LET rows == StatementsIn(table, ticker, year, NULL)
         IN  IF rows = {}
             THEN [ok |-> FALSE, called |-> TRUE, table |-> table]
             ELSE LET existing == CHOOSE st \in rows : TRUE
                      updated == [f \in DOMAIN existing |->
                                     IF f \in StatementFields /\ answer.data[f] # NULL
                                     THEN answer.data[f] ELSE existing[f]]
                  IN  [ok |-> TRUE, called |-> TRUE,
                       table |-> (table \ {existing}) \cup {updated}]

\* Mutant: incremental mode starts at start_year like a full collection.
ActualStartYear_FromStart(incremental, latest_year, start_year) == start_year

\* actual_start_year: latest_year + 1 in incremental mode when the stock has
\* an annual statement, start_year otherwise.
ActualStartYear(incremental, latest_year, start_year) ==
    IF incremental /\ Truthy(latest_year) THEN latest_year.v + 1 ELSE start_year

\* The loop variables of one stock: the table, the counters of results the
\* year loop touches, the two flags, and the requests made.
YearLoopStart(table) ==
    [table |-> table, statements_collected |-> 0, statements_skipped |-> 0,
     errors |-> 0, stock_success |-> FALSE, stock_skipped |-> TRUE,
     calls |-> {}, refused |-> {}]

\* The body of "for year in range(actual_start_year, end_year + 1)"
YearBody(acc, ticker, year, skip_existing, answer) ==
    IF skip_existing /\ answer = DbError
    THEN [acc EXCEPT !.errors = @ + 1]
    ELSE IF skip_existing /\ StatementsIn(acc.table, ticker, year, NULL) # {}
    THEN [acc EXCEPT !.statements_skipped = @ + 1, !.stock_success = TRUE]
    ELSE LET saved == save_financial_to_db(acc.table, ticker, year, answer)
             asked == [acc EXCEPT
                          !.table = saved.table,
                          !.calls = IF saved.called THEN @ \cup {year} ELSE @,
                          !.refused = IF answer = NoReport THEN @ \cup {year} ELSE @]
         IN  IF saved.ok
             THEN [asked EXCEPT !.statements_collected = @ + 1,
                                !.stock_success = TRUE, !.stock_skipped = FALSE]
             ELSE asked

RECURSIVE YearLoop(_, _, _, _, _, _)
YearLoop(acc, ticker, year, end_year, skip_existing, answers) ==
    IF year > end_year THEN acc
    ELSE YearLoop(YearBody(acc, ticker, year, skip_existing, answers[year]),
                  ticker, year + 1, end_year, skip_existing, answers)

\* Mutant: a stock whose years were all present is counted twice.
Count_SkippedAndSuccess(results, stock_skipped, stock_success) ==
    IF stock_skipped
    THEN [results EXCEPT !.stocks_skipped = @ + 1,
                         !.stocks_success = IF stock_success THEN @ + 1 ELSE @]
    ELSE IF stock_success THEN [results EXCEPT !.stocks_success = @ + 1]
    ELSE [results EXCEPT !.stocks_failed = @ + 1]

\* "if stock_skipped ... elif stock_success ... else ..." after the year loop
Count(results, stock_skipped, stock_success) ==
    IF stock_skipped THEN [results EXCEPT !.stocks_skipped = @ + 1]
    ELSE IF stock_success THEN [results EXCEPT !.stocks_success = @ + 1]
    ELSE [results EXCEPT !.stocks_failed = @ + 1]

FbIdle ==
    [pc |-> "idle", tickers |-> <<>>, start_year |-> 0, end_year |-> 0,
     skip_existing |-> FALSE, incremental |-> FALSE, repeat |-> FALSE,
     idx |-> 0, stocks_processed |-> 0, stocks_success |-> 0,
     stocks_failed |-> 0, stocks_skipped |-> 0, statements_collected |-> 0,
     statements_skipped |-> 0, errors |-> 0,
     ticker |-> 0, requested |-> {}, calls |-> {}, refused |-> {}]

\* collect_batch(db, tickers, start_year, end_year, skip_existing,
\* incremental) up to its loop.  repeat: the call has the arguments of the
\* call that has just returned.
FbBegin(tickers, start_year, end_year, skip_existing, incremental) ==
    /\ fb.pc \in {"idle", "done"}
    /\ fb' = [FbIdle EXCEPT
                 !.pc = "loop", !.tickers = tickers,
                 !.start_year = start_year, !.end_year = end_year,
                 !.skip_existing = skip_existing, !.incremental = incremental,
                 !.repeat = /\ fb.pc = "done"
                            /\ fb.tickers = tickers
                            /\ fb.start_year = start_year
                            /\ fb.end_year = end_year
                            /\ fb.skip_existing = skip_existing
                            /\ fb.incremental = incremental]
    /\ UNCHANGED <<stocks, snapVars, priceVars, batch, ratioVars, callVars,
                   exceptFb>>

\* One iteration of "for idx, ticker in enumerate(tickers, 1)".  db_fails:
\* the stock query raises; answers: what the requests of the years meet.
FbStock(db_fails, answers) ==
    /\ fb.pc = "loop" /\ fb.idx < Len(fb.tickers)
    /\ LET ticker == fb.tickers[fb.idx + 1]
           results == [fb EXCEPT !.idx = @ + 1, !.stocks_processed = @ + 1,
                                 !.ticker = ticker, !.requested = {},
                                 !.calls = {}, !.refused = {}]
           failed == [results EXCEPT !.errors = @ + 1, !.stocks_failed = @ + 1]
           latest_year == get_latest_financial_year(financial_statements, ticker)
           actual_start_year ==
               ActualStartYear(fb.incremental, latest_year, fb.start_year)
           end == YearLoop(YearLoopStart(financial_statements), ticker,
                           actual_start_year, fb.end_year, fb.skip_existing,
                           answers)
           looped == [results EXCEPT
                         !.requested = actual_start_year..fb.end_year,
                         !.calls = end.calls, !.refused = end.refused,
                         !.statements_collected = @ + end.statements_collected,
                         !.statements_skipped = @ + end.statements_skipped,
                         !.errors = @ + end.errors]
       IN  IF db_fails \/ {s \in stocks : s.ticker = ticker} = {}
           THEN /\ fb' = failed
                /\ UNCHANGED financial_statements
           ELSE IF /\ fb.incremental /\ Truthy(latest_year)
                   /\ actual_start_year > fb.end_year
           THEN /\ fb' = [results EXCEPT !.stocks_skipped = @ + 1]
                /\ UNCHANGED financial_statements
           ELSE /\ fb' = Count(looped, end.stock_skipped, end.stock_success)
                /\ financial_statements' = end.table
    /\ UNCHANGED <<stocks, snapVars, priceVars, batch, financial_ratios, rc,
                   callVars, exceptFb>>

\* The loop is over: return results.
FbReturn ==
    /\ fb.pc = "loop" /\ fb.idx = Len(fb.tickers)
    /\ fb' = [fb EXCEPT !.pc = "done"]
    /\ UNCHANGED <<stocks, snapVars, priceVars, batch, ratioVars, callVars,
                   exceptFb>>

\* ------------------------------------------------------ DataQualityChecker
\* Stored ratios are DECIMAL(10, 4) values in units of 0.0001.
Units(n) == n * 10000

\* self.thresholds
Thresholds(field) ==
    CASE field = "roe" -> [min |-> -100, max |-> 100]
      [] field = "roa" -> [min |-> -100, max |-> 100]
      [] field = "per" -> [min |-> -100, max |-> 1000]
      [] field = "pbr" -> [min |-> -10, max |-> 100]
      [] field = "psr" -> [min |-> -10, max |-> 100]
      [] field = "debt_ratio" -> [min |-> 0, max |-> 1000]
      [] field = "operating_margin" -> [min |-> -100, max |-> 100]
      [] field = "net_margin" -> [min |-> -100, max |-> 100]

\* query.limit(limit): the number of rows of a result of n rows
Limited(n, limit) == IF n > limit THEN limit ELSE n
AnomalyLimit == 100
MissingLimit == 50

\* round(x, 2) of the quotient num / den, in hundredths: the nearest
\* hundredth, a tie to the even one.
Round2(num, den) ==
    LET q == (num * 100) \div den
        r == (num * 100) % den
    IN  IF 2 * r > den \/ (2 * r = den /\ q % 2 = 1) THEN q + 1 ELSE q

StocksWithStatements ==
    {s \in stocks : \E st \in financial_statements : st.stock_id = s.ticker}
StocksWithMarketCap ==
    {s \in stocks : \E r \in Rows(stock_market_data) :
        /\ r.stock_id = s.ticker
        /\ r.market_cap # NULL /\ r.market_cap.v > 0}
StocksWithRatios ==
    {s \in stocks : \E r \in Rows(financial_ratios) : r.stock_id = s.ticker}

\* check_data_completeness(db): the counts and coverage_rates.ratios (in
\* hundredths of a percent)
check_data_completeness ==
    LET total_stocks == Cardinality(stocks) IN
    [total_stocks |-> total_stocks,
     with_financial_statements |-> Cardinality(StocksWithStatements),
     with_market_cap |-> Cardinality(StocksWithMarketCap),
     with_ratios |-> Cardinality(StocksWithRatios),
     ratios_coverage |->
        IF total_stocks > 0
        THEN Round2(Cardinality(StocksWithRatios) * 100, total_stocks)
        ELSE 0]

\* order_by(FinancialRatio.fiscal_date.desc()).first()
LatestRatio(stock_id) ==
    LET rows == {r \in Rows(financial_ratios) : r.stock_id = stock_id}
    IN  CHOOSE r \in rows : \A o \in rows : o.fiscal_date <= r.fiscal_date

\* "if value < thresholds['min'] or value > thresholds['max']"
Extreme(field, value) ==
    \/ value.v < Units(Thresholds(field).min)
    \/ value.v > Units(Thresholds(field).max)

ExtremeFlags(ratio) ==
    {f \in RatioFields : ratio[f] # NULL /\ Extreme(f, ratio[f])}
NegativeFlags(ratio) ==
    {f \in {"per", "pbr", "psr"} : ratio[f] # NULL /\ ratio[f].v < 0}
NullCount(ratio) ==
    Cardinality({f \in {"roe", "roa", "per", "pbr", "psr", "debt_ratio"} :
                    ratio[f] = NULL})

RECURSIVE Sum(_, _)
Sum(f, S) == IF S = {} THEN 0
             ELSE LET x == CHOOSE y \in S : TRUE IN f[x] + Sum(f, S \ {x})

\* check_ratio_anomalies(db, limit=100): total_checked, the three counts
\* and the flags of every stock checked
check_ratio_anomalies ==
    LET checked == {s.ticker : s \in StocksWithRatios} IN
    [total_checked |-> Limited(Cardinality(checked), AnomalyLimit),
     extreme_values |->
        Cardinality({t \in checked : ExtremeFlags(LatestRatio(t)) # {}}),
     negative_values |->
        Sum([t \in checked |-> Cardinality(NegativeFlags(LatestRatio(t)))],
            checked),
     high_null_ratio |->
        Cardinality({t \in checked : NullCount(LatestRatio(t)) >= 4}),
     extreme |-> [t \in checked |-> ExtremeFlags(LatestRatio(t))]]

\* check_missing_statements(db, limit=50): total_no_fs and total_no_mc
check_missing_statements ==
    [total_no_fs |->
        Limited(Cardinality(stocks \ StocksWithStatements), MissingLimit),
     total_no_mc |->
        Limited(Cardinality(StocksWithStatements \ StocksWithMarketCap),
                MissingLimit)]

Max0(n) == IF n < 0 THEN 0 ELSE n

\* _calculate_quality_score, in hundredths: the three weighted scores are
\* put over the common denominator 1000 * total_checked * total_stocks.
calculate_quality_score(completeness, anomalies, missing) ==
    LET total_checked == anomalies.total_checked
        total_anomalies == anomalies.extreme_values + anomalies.negative_values
                              + anomalies.high_null_ratio
        total_stocks == completeness.total_stocks
        total_missing == missing.total_no_fs + missing.total_no_mc
        c == IF total_checked > 0 THEN total_checked ELSE 1
        t == IF total_stocks > 0 THEN total_stocks ELSE 1
        anomaly_score == IF total_checked > 0
                         THEN Max0(total_checked - total_anomalies) ELSE 1
        missing_score == IF total_stocks > 0
                         THEN Max0(total_stocks - total_missing) ELSE 1
    IN  Round2(completeness.ratios_coverage * 5 * c * t
                  + 30000 * anomaly_score * t + 20000 * missing_score * c,
               1000 * c * t)

\* _get_quality_grade, on a score in hundredths
get_quality_grade(score) ==
    IF score >= 9000 THEN "A (Excellent)"
    ELSE IF score >= 8000 THEN "B (Good)"
    ELSE IF score >= 7000 THEN "C (Fair)"
    ELSE IF score >= 6000 THEN "D (Poor)"
    ELSE "F (Critical)"

\* generate_quality_report(db)
generate_quality_report ==
    LET completeness == check_data_completeness
        anomalies == check_ratio_anomalies
        missing == check_missing_statements
        quality_score == calculate_quality_score(completeness, anomalies, missing)
    IN  [quality_score |-> quality_score, completeness |-> completeness,
         anomalies |-> anomalies, missing_data |-> missing,
         data_quality |-> get_quality_grade(quality_score)]

\* The rows the quality checker and the screener read.
Storage == <<stocks, stock_market_data, stock_prices, financial_statements,
             financial_ratios>>

QsIdle == [op |-> "none"]

\* What a call leaves behind: its result, the storage it has read, and
\* whether it repeats the call before it on the same storage.
Call(op, args, result) ==
    [op |-> op, args |-> args, result |-> result, storage |-> Storage,
     again |-> qs.op = op /\ qs.args = args /\ qs.storage = Storage]

\* GET /data-quality/report
GenerateQualityReport ==
    /\ qs' = Call("generate_quality_report", [market |-> NULL],
                  [report |-> generate_quality_report])
    /\ UNCHANGED <<stocks, snapVars, priceVars, batch, ratioVars, callVars,
                   exceptQs>>

\* ------------------------------------------------------------ StockScreener
\* get_latest_ratios_subquery: per stock with annual rows, the newest
\* fiscal_date among them
LatestAnnualDates ==
    LET annual == {r \in Rows(financial_ratios) : r.report_type = "annual"}
    IN  [t \in {r.stock_id : r \in annual} |->
            Max({r.fiscal_date : r \in {x \in annual : x.stock_id = t}})]

\* latest_market_cap_sq: per stock with snapshots, the newest trade_date
LatestSnapshotDates ==
    [t \in {r.stock_id : r \in Rows(stock_market_data)} |->
        Max({r.trade_date : r \in {x \in Rows(stock_market_data) :
                                      x.stock_id = t}})]

\* The rows of Stock JOIN FinancialRatio JOIN latest_ratios OUTER JOIN
\* latest_market_cap_sq OUTER JOIN StockMarketData with Stock.country = 'KR'.
\* The ratio rows are joined on stock_id and fiscal_date alone.
Joined ==
    LET ratios(t) ==
            IF t \in DOMAIN LatestAnnualDates
            THEN {r \in Rows(financial_ratios) :
                     r.stock_id = t /\ r.fiscal_date = LatestAnnualDates[t]}
            ELSE {}
        caps(t) ==
            IF t \in DOMAIN LatestSnapshotDates
            THEN {r.market_cap : r \in {x \in Rows(stock_market_data) :
                     x.stock_id = t /\ x.trade_date = LatestSnapshotDates[t]}}
            ELSE {NULL}
    IN  UNION {UNION {{[ticker |-> s.ticker, market |-> s.market, ratio |-> r,
                        market_cap |-> m] : m \in caps(s.ticker)}
                         : r \in ratios(s.ticker)}
                  : s \in {x \in stocks : x.country = "KR"}}

\* A comparison with NULL is not true.  Mutant: NULL passes an upper bound.
SqlLe_NullPasses(x, bound) == x = NULL \/ x.v <= bound
SqlLe(x, bound) == x # NULL /\ x.v <= bound
SqlGe(x, bound) == x # NULL /\ x.v >= bound
SqlGt(x, bound) == x # NULL /\ x.v > bound

\* "if market:" / "if sector:" filters
SectorOf(ticker) == IF ticker = 1 THEN NULL ELSE [v |-> "Sector"]
MarketFilter(j, market) == market # NULL => j.market = market.v

\* min_market_cap * 100000000
CapUnit == 100000000

UndervaluedFilter(j, req) ==
    /\ SqlGt(j.ratio.per, 0) /\ SqlLe(j.ratio.per, req.max_per)
    /\ SqlGt(j.ratio.pbr, 0) /\ SqlLe(j.ratio.pbr, req.max_pbr)
QualityFilter(j, req) ==
    /\ SqlGe(j.ratio.roe, req.min_roe)
    /\ SqlLe(j.ratio.debt_ratio, req.max_debt_ratio)
GrowthFilter(j, req) ==
    /\ SqlGe(j.ratio.roe, req.min_roe)
    /\ SqlGt(j.ratio.per, 0) /\ SqlLe(j.ratio.per, req.max_per)

\* The optional filters of screen_custom
BoundedFields == {"roe", "per", "pbr", "debt_ratio"}
CustomFilter(j, req) ==
    /\ \A f \in BoundedFields :
          /\ req.min[f] # NULL => SqlGe(j.ratio[f], req.min[f].v)
          /\ req.max[f] # NULL => SqlLe(j.ratio[f], req.max[f].v)
    /\ req.min_market_cap # NULL
          => SqlGe(j.market_cap, req.min_market_cap.v * CapUnit)
    /\ req.max_market_cap # NULL
          => SqlLe(j.market_cap, req.max_market_cap.v * CapUnit)
    /\ req.sector # NULL => SectorOf(j.ticker) = req.sector

ScreenFilter(j, req) ==
    /\ MarketFilter(j, req.market)
    /\ req.min_market_cap_preset # NULL /\ req.min_market_cap_preset.v # 0
          => SqlGe(j.market_cap, req.min_market_cap_preset.v * CapUnit)
    /\ CASE req.kind = "undervalued" -> UndervaluedFilter(j, req)
         [] req.kind = "quality" -> QualityFilter(j, req)
         [] req.kind = "growth" -> GrowthFilter(j, req)
         [] req.kind = "custom" -> CustomFilter(j, req)

RECURSIVE Gcd(_, _)
Gcd(a, b) == IF b = 0 THEN a ELSE Gcd(b, a % b)

\* The quotient n / d (d > 0) in lowest terms
Quotient(n, d) ==
    LET g == Gcd(IF n < 0 THEN -n ELSE n, d) IN Frac(n \div g, d \div g)

\* The ORDER BY expression of a row, as a fraction, NULL when the
\* expression is NULL
SortKey(j, req) ==
    LET col(f) == IF j.ratio[f] = NULL THEN NULL ELSE Frac(j.ratio[f].v, 1) IN
    CASE req.kind = "undervalued" -> Frac(j.ratio.per.v + j.ratio.pbr.v, 1)
      [] req.kind = "quality" -> col("roe")
      [] req.kind = "growth" -> Quotient(j.ratio.roe.v, j.ratio.per.v)
      [] req.kind = "custom" ->
            IF req.sort_by = "market_cap"
            THEN (IF j.market_cap = NULL THEN NULL ELSE Frac(j.market_cap.v, 1))
            ELSE IF req.sort_by \in BoundedFields THEN col(req.sort_by)
            ELSE col("roe")

Descending(req) ==
    CASE req.kind = "undervalued" -> FALSE
      [] req.kind = "quality" -> TRUE
      [] req.kind = "growth" -> TRUE
      [] req.kind = "custom" -> req.sort_order = "desc"

\* a sorts before b in ascending order; NULL sorts first, and rows of equal
\* keys come in the order of their tickers.
KeyLess(a, b) ==
    IF a = NULL THEN b # NULL
    ELSE b # NULL /\ a.num * b.den < b.num * a.den
SortsBefore(x, y, req) ==
    LET a == SortKey(x, req)
        b == SortKey(y, req)
    IN  \/ IF Descending(req) THEN KeyLess(b, a) ELSE KeyLess(a, b)
        \/ ~KeyLess(a, b) /\ ~KeyLess(b, a) /\ x.ticker < y.ticker

RECURSIVE Ordered(_, _)
Ordered(rows, req) ==
    IF rows = {} THEN <<>>
    ELSE LET first == CHOOSE r \in rows : \A o \in rows : ~SortsBefore(o, r, req)
         IN  <<first>> \o Ordered(rows \ {first}, req)

\* results.append({...}): "float(x) if x else None" on every ratio shown
ResultRow(j) ==
    [ticker |-> j.ticker, fiscal_date |-> j.ratio.fiscal_date,
     roe |-> FloatIfTruthy(j.ratio.roe), per |-> FloatIfTruthy(j.ratio.per),
     pbr |-> FloatIfTruthy(j.ratio.pbr),
     debt_ratio |-> FloatIfTruthy(j.ratio.debt_ratio),
     market_cap |-> FloatIfTruthy(j.market_cap)]

\* screen_undervalued / screen_quality / screen_growth / screen_custom: the
\* joined rows behind the result, in the order of the result
ScreenRows(req) ==
    LET ordered == Ordered({j \in Joined : ScreenFilter(j, req)}, req)
    IN  SubSeq(ordered, 1, Limited(Len(ordered), req.limit))

screen(req) ==
    LET rows == ScreenRows(req) IN [i \in DOMAIN rows |-> ResultRow(rows[i])]

\* compare_by_sector(db, limit_per_sector): per sector the tickers of the
\* rows with the highest roe
compare_by_sector(limit_per_sector) ==
    LET req == [kind |-> "quality"]
        rows == {j \in Joined : SectorOf(j.ticker) # NULL /\ j.ratio.roe # NULL}
        sectors == {SectorOf(j.ticker) : j \in rows}
    IN  [sec \in sectors |->
            LET ordered == Ordered({j \in rows : SectorOf(j.ticker) = sec}, req)
            IN  [i \in 1..Limited(Len(ordered), limit_per_sector) |->
                    ResultRow(ordered[i])]]

\* Mutant: the screener removes the rows it does not return.
Screen_Prunes(req) ==
    /\ qs' = Call("screen", req, [rows |-> screen(req)])
    /\ financial_ratios' =
          SetToBag({ScreenRows(req)[i].ratio : i \in DOMAIN ScreenRows(req)})
    /\ UNCHANGED <<stocks, snapVars, priceVars, batch, financial_statements,
                   rc, callVars, exceptQs>>

\* GET /screening/undervalued, /quality, /growth and /custom
Screen(req) ==
    /\ qs' = Call("screen", req, [rows |-> screen(req)])
    /\ UNCHANGED <<stocks, snapVars, priceVars, batch, ratioVars, callVars,
                   exceptQs>>

\* GET /screening/sectors
CompareBySector(limit_per_sector) ==
    /\ qs' = Call("compare_by_sector",
                  [market |-> NULL, limit_per_sector |-> limit_per_sector],
                  [sectors |-> compare_by_sector(limit_per_sector)])
    /\ UNCHANGED <<stocks, snapVars, priceVars, batch, ratioVars, callVars,
                   exceptQs>>

\* ------------------------------------------- overlapping collection runs
\* collect_korea_daily is the scheduler's job and the body of POST
\* /scheduler/run/korea; each activation opens its own SessionLocal() and
\* nothing keeps the two from running at the same time.
Runs == {"scheduled", "run_now"}

\* What a session's plain reads see: the rows committed when its
\* transaction began, or the rows committed now (the engine's isolation
\* level is set outside these sources).
Isolations == {"REPEATABLE READ", "READ COMMITTED"}

OvIdle ==
    [pc |-> "idle", isolation |-> "READ COMMITTED", ticker |-> 0,
     price_df |-> NoFrame, todo |-> {}, existing |-> FALSE,
     snapshot |-> EmptyBag, added |-> EmptyBag, updated |-> {}]

\* The rows committed, as the run's session reads them.
Committed(run) ==
    IF ov[run].isolation = "REPEATABLE READ" THEN ov[run].snapshot ELSE stock_prices

\* One stock of the batch loop in this run: start_date from the latest
\* persisted bar, then save_stock_prices_to_db up to the fetched frame.
OvBegin(run, isolation, ticker, answer) ==
    /\ ov[run].pc = "idle"
    /\ {s \in stocks : s.ticker = ticker} # {}
    /\ LET start_date == StartDate(TRUE, LastCollectionDate(ticker))
       IN /\ answer \in Answers(RequestFrom(start_date), RequestTo, Bars)
          /\ ~answer.raised /\ DOMAIN answer.df # {}
          /\ ov' = [ov EXCEPT ![run] =
                      [OvIdle EXCEPT !.pc = "check", !.isolation = isolation,
                                     !.ticker = ticker, !.price_df = answer.df,
                                     !.todo = DOMAIN answer.df,
                                     !.snapshot = stock_prices]]
    /\ UNCHANGED <<stocks, snapVars, priceVars, batch, ratioVars, callVars, exceptOv>>

\* existing = db.query(StockPrice).filter(stock_id, trade_date).first().
\* A frame has one row per date, so the rows this session has added are
\* never the ones looked for.
OvCheck(run) ==
    /\ ov[run].pc = "check"
    /\ LET d == Min(ov[run].todo) IN
       ov' = [ov EXCEPT ![run].pc = "write",
                        ![run].existing =
                            PricesAt(Committed(run), ov[run].ticker, d) # {}]
    /\ UNCHANGED <<stocks, snapVars, priceVars, batch, ratioVars, callVars, exceptOv>>

\* if existing: set its fields; else: db.add(StockPrice(...)).  Nothing is
\* visible to the other session before the commit; a row one session has
\* changed is locked for the other until then.
OvWrite(run) ==
    /\ ov[run].pc = "write"
    /\ LET d == Min(ov[run].todo)
           row == PriceRow(ov[run].ticker, d, ov[run].price_df[d])
           next == IF ov[run].todo = {d} THEN "commit" ELSE "check"
       IN
       IF ~ov[run].existing
       THEN ov' = [ov EXCEPT ![run].pc = next, ![run].todo = @ \ {d},
                             ![run].added = @ (+) SetToBag({row})]
       ELSE /\ \A other \in Runs \ {run} :
                  ~(ov[other].ticker = ov[run].ticker /\ d \in ov[other].updated)
            /\ ov' = [ov EXCEPT ![run].pc = next, ![run].todo = @ \ {d},
                                ![run].updated = @ \cup {d}]
    /\ UNCHANGED <<stocks, snapVars, priceVars, batch, ratioVars, callVars, exceptOv>>

\* db.commit(): the changed rows take the frame's values, the added rows
\* join the table.
OvCommit(run) ==
    /\ ov[run].pc = "commit"
    /\ \E table \in SavePriceRows(stock_prices, ov[run].ticker, ov[run].price_df,
                                  ov[run].updated) :
          stock_prices' = table (+) ov[run].added
    /\ ov' = [ov EXCEPT ![run] = [OvIdle EXCEPT !.isolation = ov[run].isolation]]
    /\ UNCHANGED <<stocks, snapVars, today, pr, batch, ratioVars, callVars, exceptOv>>

\* ------------------------------------------------------ collect_us_batch
\* Symbols of the other market, beyond the Korean listing.
UsTickers == {NumStocks + 1, NumStocks + 2}
UsTickerLists == {<<>>, <<NumStocks + 1>>, <<NumStocks + 1, NumStocks + 2>>}

UsIdle ==
    [pc |-> "idle", tickers |-> <<>>, incremental |-> TRUE, idx |-> 0,
     stocks_processed |-> 0, stocks_success |-> 0, stocks_failed |-> 0,
     prices_saved |-> 0, errors |-> 0]

\* collect_us_batch up to its loop: the tickers given, or with collect_all
\* the US stocks of the table; "if not tickers: return results".
UsBegin(tickers, collect_all, incremental) ==
    /\ us.pc # "loop"
    /\ LET todo == IF collect_all
                   THEN Ascending({s.ticker : s \in {x \in stocks : x.country = "US"}})
                   ELSE tickers
       IN us' = [UsIdle EXCEPT
                    !.pc = IF todo = <<>> THEN "returned" ELSE "loop",
                    !.tickers = todo, !.incremental = incremental]
    /\ UNCHANGED <<stocks, snapVars, priceVars, batch, ratioVars, callVars, exceptUs>>

\* One iteration of "for idx, ticker in enumerate(tickers, 1)".  db_fails:
\* the stock query raises; info_found: save_stock_to_db gets the stock's
\* profile and saves it.  The US collector's save_stock_prices_to_db is
\* built like the Korean one.
UsStock(db_fails, info_found, answer) ==
    /\ us.pc = "loop" /\ us.idx < Len(us.tickers)
    /\ LET ticker == us.tickers[us.idx + 1]
           counted == [us EXCEPT !.idx = @ + 1, !.stocks_processed = @ + 1]
           known == {s \in stocks : s.ticker = ticker} # {}
           start_date == StartDate(us.incremental, LastCollectionDate(ticker))
       IN
       IF db_fails \/ (~known /\ ~info_found)
       THEN /\ us' = [counted EXCEPT !.stocks_failed = @ + 1, !.errors = @ + 1]
            /\ UNCHANGED <<stocks, stock_prices, pr>>
       ELSE /\ stocks' = IF known THEN stocks
                         ELSE stocks \cup {[ticker |-> ticker, market |-> "NASDAQ",
                                            country |-> "US"]}
            /\ answer \in Answers(RequestFrom(start_date), RequestTo, BatchBars)
            /\ SaveFetched(ticker, start_date, answer)
            /\ us' = [counted EXCEPT !.prices_saved = @ + pr'.ret,
                                     !.stocks_success = @ + 1]
    /\ UNCHANGED <<snapVars, today, batch, ratioVars, callVars, exceptUs>>

\* The loop is over: return results.
UsReturn ==
    /\ us.pc = "loop" /\ us.idx = Len(us.tickers)
    /\ us' = [us EXCEPT !.pc = "returned"]
    /\ UNCHANGED <<stocks, snapVars, priceVars, batch, ratioVars, callVars, exceptUs>>

SvcIdle ==
    /\ fb = FbIdle
    /\ qs = QsIdle
    /\ ov = [run \in Runs |-> OvIdle]
    /\ us = UsIdle

\* ------------------------------------------------------------- snapshots
Init ==
    /\ stocks = {}
    /\ stock_market_data = EmptyBag
    /\ stock_prices = EmptyBag
    /\ today = SnapDays
    /\ md = MdIdle
    /\ pr = PrIdle
    /\ batch = BatchIdle
    /\ financial_statements = {}
    /\ financial_ratios = EmptyBag
    /\ rc = RcIdle
    /\ eng = EngIdle
    /\ norm = NormIdle
    /\ tx = TxIdle
    /\ SvcIdle

NextSnapshot ==
    \/ \E m \in Markets, l \in Listings : SaveStocks(m, l)
    \/ \E m \in Markets, d \in SnapDates : MdBegin(m, d)
    \/ \E m \in Markets, d \in SnapDates : MdEmpty(m, d)
    \/ \E t \in Tickers, mc \in MarketCapCells, tv \in TradingValueCells,
          sh \in SharesCells : MdRow(t, mc, tv, sh)
    \/ MdReturn

SpecSnapshot == Init /\ [][NextSnapshot]_vars

\* --------------------------------------------------------------- upserts
\* The two collections write disjoint tables and never read each other's:
\* a behaviour exercises one of the two collections.  The price endpoint is
\* called without a start date, so the request covers every modelled day.
NextUpsert ==
    \/ pr = PrIdle /\ NextSnapshot
    \/ md = MdIdle /\ \E m \in Markets, l \in Listings : SaveStocks(m, l)
    \/ md = MdIdle /\ \E t \in Tickers :
          \E a \in Answers(RequestFrom(NULL), RequestTo, Bars) :
             PrCollect(t, NULL, a)

SpecUpsert == Init /\ [][NextUpsert]_vars

\* ------------------------------------------------------ snapshot claims
ZeroOrAbsent(x) == x = NULL \/ x = Num(0)

\* C2: a call whose frame has market_cap = 0 and trading_value = 0 in every
\* row creates or updates no StockMarketData row and returns 0.
C2_AllZeroFrameSavesNothing ==
    [][ /\ (md'.pc = "rows" /\ md'.all_zero)
            => stock_market_data' = stock_market_data
        /\ (md'.pc = "returned" /\ md'.all_zero)
            => (md'.ret = 0 /\ stock_market_data' = stock_market_data) ]_vars

\* Such a call has returned for a frame of at least two rows, over a date
\* that already had a persisted row.
C2_Witness ==
    /\ md.pc = "returned" /\ md.all_zero /\ md.skipped_count >= 2
    /\ \E t \in Tickers : MarketDataAt(t, md.date) # {}

\* C3: if any row of the frame is a holiday row (both zero or both
\* missing), the call persists no row at all for that date, and the
\* holiday message is printed exactly once.
C3_HolidaySkipsWholeDate ==
    (md.pc = "returned" /\ md.holiday_detected)
        => (~md.wrote /\ md.ret = 0 /\ md.holiday_logs = 1)

\* C4: no persisted StockMarketData row has market_cap and trading_value
\* both zero or absent.
C4_NoEmptySnapshotPersisted ==
    \A r \in Rows(stock_market_data) :
        ~(ZeroOrAbsent(r.market_cap) /\ ZeroOrAbsent(r.trading_value))

\* The iteration for md.ticker has just run on an illiquid row of a known
\* stock.
IlliquidRowDone ==
    /\ md.pc = "rows" /\ md.ticker # 0
    /\ IlliquidRow(md.row.MarketCap, md.row.TradingValue)
    /\ StockIn(md.ticker, md.market) # {}

\* C5: a row with market_cap > 0 and trading_value = 0 of a known stock is
\* saved (counted) with the fetched market_cap and a NULL trading_value; no
\* persisted row ever holds 0 in market_cap or trading_value.
C5_IlliquidRowStoredWithNull ==
    /\ \A r \in Rows(stock_market_data) :
          r.market_cap # Num(0) /\ r.trading_value # Num(0)
    /\ IlliquidRowDone =>
          /\ md.wrote /\ md.saved_count >= 1
          /\ MarketDataAt(md.ticker, md.date) # {}
          /\ \A r \in MarketDataAt(md.ticker, md.date) :
                r.market_cap = md.row.MarketCap /\ r.trading_value = NULL

\* An illiquid row has just been saved, every row of the frame before it
\* having been saved too.
C5_Witness ==
    /\ IlliquidRowDone
    /\ md.saved_count = md.ticker
    /\ \E r \in MarketDataAt(md.ticker, md.date) :
          r.market_cap = Num(5) /\ r.trading_value = NULL

\* ----------------------------------------------------------------- batch
MaxStocks == {NULL, Num(1)}

\* The exchange lists all its tickers on every run.
NextBatch ==
    \/ \E m \in Markets, i \in BOOLEAN, k \in MaxStocks :
          BatchBegin(m, i, k, Tickers)
    \/ \E f \in BOOLEAN : BatchStock(f)
    \/ BatchReturn
    \/ batch.pc # "loop" /\ Tick(PriceDays)

SpecBatch == Init /\ [][NextBatch]_vars

\* ---------------------------------------------------------------- ratios
FiscalYears == {1}
Quarters == {NULL, Num(1)}

\* The statements a run starts from: the first stock has reported the year
\* and its first quarter, the last stock nothing, every other stock the
\* year.
QuartersReported(t) ==
    IF t = NumStocks THEN {} ELSE IF t = 1 THEN Quarters ELSE {NULL}

\* The snapshots a run starts from, the same for every stock and period
\* end, as <<days after the period end, market_cap>>: none; one on the
\* period end; one on the first day of the window and one after the period
\* end; one a day before the window; one without market_cap on the period
\* end and one a day before it.
SnapshotProfiles ==
    { {},
      {<<0, Num(5)>>},
      {<<-SnapshotWindowDays, Num(8)>>, <<1, Num(5)>>},
      {<<-SnapshotWindowDays - 1, Num(5)>>},
      {<<0, NULL>>, <<-1, Num(8)>>} }

InitRatio ==
    /\ stocks = {[ticker |-> t, market |-> "KOSPI", country |-> "KR"] : t \in Tickers}
    /\ \E profile \in SnapshotProfiles :
          stock_market_data =
             SetToBag({[stock_id |-> t,
                        trade_date |-> TargetDate(y, q) + p[1],
                        market_cap |-> p[2], trading_value |-> Num(3),
                        shares_outstanding |-> Num(7)]
                          : t \in Tickers, y \in FiscalYears, q \in Quarters,
                            p \in profile})
    /\ financial_statements =
          UNION {{StatementRow(t, y, q, Healthy) : y \in FiscalYears,
                                                   q \in QuartersReported(t)}
                    : t \in Tickers}
    /\ stock_prices = EmptyBag
    /\ today = SnapDays
    /\ md = MdIdle
    /\ pr = PrIdle
    /\ batch = BatchIdle
    /\ financial_ratios = EmptyBag
    /\ rc = RcIdle
    /\ eng = EngIdle
    /\ norm = NormIdle
    /\ tx = TxIdle
    /\ SvcIdle

NextRatio ==
    \/ \E t \in Tickers, y \in {NULL} \cup {Num(fy) : fy \in FiscalYears} :
          CalculateAndSaveForStock(t, y)
    \/ \E t \in Tickers, y \in FiscalYears, q \in Quarters, d \in FinancialData :
          SaveFinancialUpdate(t, y, q, d)

SpecRatio == InitRatio /\ [][NextRatio]_vars

\* ---------------------------------------------------------------- engine
\* Arguments of the direct calls.  With the denominators 1 and 2 the
\* market caps hit every limit exactly and pass it by the smallest step.
ValuationCaps ==
    {Num(-2001), Num(-2000), Num(-1001), Num(-1000), Num(-201), Num(-200),
     Num(-101), Num(-100), Num(0), Num(50), Num(1000), Num(1001), Num(2000),
     Num(2001), Num(10000), Num(10001), Num(20000), Num(20001)}
Denominators == {NULL, Num(0), Num(-2), Num(1), Num(2)}

\* Statement rows: every line item absent, zero or a value.
StatementInputs ==
    [revenue : {NULL, Num(0), Num(1000)},
     operating_income : {NULL, Num(0), Num(-50), Num(150)},
     net_income : {NULL, Num(0), Num(-30), Num(100)},
     total_assets : {NULL, Num(2000)},
     total_liabilities : {NULL, Num(0), Num(1500)},
     total_equity : {NULL, Num(0), Num(-10), Num(500)}]

\* What step 2 hands over: no snapshot, or a positive market_cap.
ResolvedCaps == {NULL, Num(5000), Num(6000000)}

InitEngine ==
    /\ stocks = {}
    /\ stock_market_data = EmptyBag
    /\ stock_prices = EmptyBag
    /\ today = SnapDays
    /\ md = MdIdle
    /\ pr = PrIdle
    /\ batch = BatchIdle
    /\ financial_statements = {}
    /\ financial_ratios = EmptyBag
    /\ rc = RcIdle
    /\ norm = NormIdle
    /\ tx = TxIdle
    /\ SvcIdle
    /\ \/ \E mc \in ValuationCaps, d \in Denominators :
             eng = [call |-> "valuation", done |-> FALSE, market_cap |-> mc,
                    denominator |-> d, per |-> NULL, pbr |-> NULL,
                    psr |-> NULL]
       \/ \E st \in StatementInputs, mc \in ResolvedCaps :
             eng = [call |-> "statement", done |-> FALSE, statement |-> st,
                    market_cap |-> mc, ratios |-> NULL]

NextEngine ==
    \/ CallValuation
    \/ CallRatios

SpecEngine == InitEngine /\ [][NextEngine]_vars

\* ------------------------------------------------------------ resolution
AllQuarters == {NULL, Num(1), Num(2), Num(3)}

\* Days, counted from a period end, on which the first stock may have a
\* snapshot: the day before the window, its first day, the day before the
\* period end, the period end and the day after.
Offsets == {-SnapshotWindowDays - 1, -SnapshotWindowDays, -1, 0, 1}

\* The snapshot of a day: not collected, stored without market_cap (a day
\* whose source row had no market_cap but a trading value), or stored with
\* a market_cap that names its day.
SnapshotCells == {"none", "nocap", "cap"}
CapOn(offset) == Num(1000 + offset)
OtherCap(t) == Num(5000 + t)

InitResolve ==
    /\ stocks = {[ticker |-> t, market |-> "KOSPI", country |-> "KR"] : t \in Tickers}
    /\ \E q \in AllQuarters, profile \in [Offsets -> SnapshotCells] :
          stock_market_data =
             SetToBag({[stock_id |-> 1,
                        trade_date |-> TargetDate(1, q) + o,
                        market_cap |-> IF profile[o] = "cap" THEN CapOn(o)
                                       ELSE NULL,
                        trading_value |-> Num(3),
                        shares_outstanding |-> Num(7)]
                          : o \in {x \in Offsets : profile[x] # "none"}}
                      \cup
                      {[stock_id |-> t,
                        trade_date |-> TargetDate(1, q),
                        market_cap |-> OtherCap(t),
                        trading_value |-> Num(3),
                        shares_outstanding |-> Num(7)]
                          : t \in Tickers \ {1}})
    /\ stock_prices = EmptyBag
    /\ today = SnapDays
    /\ md = MdIdle
    /\ pr = PrIdle
    /\ batch = BatchIdle
    /\ financial_statements = {}
    /\ financial_ratios = EmptyBag
    /\ rc = RcIdle
    /\ norm = NormIdle
    /\ tx = TxIdle
    /\ SvcIdle
    /\ \E t \in Tickers, q \in AllQuarters :
          eng = [call |-> "resolve", done |-> FALSE, stock_id |-> t,
                 fiscal_year |-> 1, fiscal_quarter |-> q, market_cap |-> NULL]

NextResolve == ResolveSnapshot

SpecResolve == InitResolve /\ [][NextResolve]_vars

\* ------------------------------------------------------------ normalizer
MaxRows == 3

Categories == {"IS", "BS"}
AccountNames ==
    {"OperatingRevenue", "OtherOperatingRevenue", "NetIncome", "TotalAssets"}
AmountStrings == {"1,000", "250", "-"}

StatementRows ==
    [sj_div : Categories, account_nm : AccountNames,
     thstrm_amount : AmountStrings]

InitNormalize ==
    /\ stocks = {}
    /\ stock_market_data = EmptyBag
    /\ stock_prices = EmptyBag
    /\ today = SnapDays
    /\ md = MdIdle
    /\ pr = PrIdle
    /\ batch = BatchIdle
    /\ financial_statements = {}
    /\ financial_ratios = EmptyBag
    /\ rc = RcIdle
    /\ eng = EngIdle
    /\ tx = TxIdle
    /\ SvcIdle
    /\ \E n \in 1..MaxRows : \E df \in [1..n -> StatementRows] :
          norm = [done |-> FALSE, df |-> df, result |-> EmptyResult]

NextNormalize == ParseFinancialData

SpecNormalize == InitNormalize /\ [][NextNormalize]_vars

\* ------------------------------------------------------ second collection
\* A report in which only revenue could be determined.
RevenueOnly ==
    [f \in StatementFields |-> IF f = "revenue" THEN Num(250) ELSE NULL]

\* A report in which only the two income lines could be determined.
IncomeOnly ==
    [f \in StatementFields |->
        IF f = "operating_income" THEN Num(10)
        ELSE IF f = "net_income" THEN Num(5) ELSE NULL]

Reports == FinancialData \cup {RevenueOnly, IncomeOnly}

\* The statements of a first collection.
CollectedOnce ==
    UNION {{StatementRow(t, y, q, Healthy) : y \in FiscalYears,
                                             q \in QuartersReported(t)}
              : t \in Tickers}

InitCollectTwice ==
    /\ stocks = {[ticker |-> t, market |-> "KOSPI", country |-> "KR"] : t \in Tickers}
    /\ financial_statements = CollectedOnce
    /\ stock_market_data = EmptyBag
    /\ stock_prices = EmptyBag
    /\ today = SnapDays
    /\ md = MdIdle
    /\ pr = PrIdle
    /\ batch = BatchIdle
    /\ financial_ratios = EmptyBag
    /\ rc = RcIdle
    /\ eng = EngIdle
    /\ norm = NormIdle
    /\ tx = TxIdle
    /\ SvcIdle

\* Statements and price bars are stored in different tables by different
\* collectors: a behaviour collects one of the two again and again.
NextCollectTwice ==
    \/ pr = PrIdle /\ \E t \in Tickers, y \in FiscalYears, q \in Quarters,
                        d \in Reports : SaveFinancialUpdate(t, y, q, d)
    \/ financial_statements = CollectedOnce /\ \E t \in Tickers :
          \E a \in Answers(RequestFrom(NULL), RequestTo, Bars) :
             PrCollect(t, NULL, a)

SpecCollectTwice == InitCollectTwice /\ [][NextCollectTwice]_vars

\* ---------------------------------------------------------- transactions
\* The longest frame: more rows than two chunks hold.
MaxFrame == 201

NextCommit ==
    \/ \E op \in SaveOperations : TxBegin(op)
    \/ \E saved \in BOOLEAN : TxRow(saved, MaxFrame)
    \/ TxChunk
    \/ TxReturn

SpecCommit == Init /\ [][NextCommit]_vars

\* -------------------------------------------------------- upsert claims
\* Every row of the table is the only row of its (stock_id, trade_date):
\* the table has as many rows as it has (stock_id, trade_date) pairs.
OnePerStockAndDate(table) ==
    BagCardinality(table)
        = Cardinality({<<r.stock_id, r.trade_date>> : r \in Rows(table)})

\* The iteration for md.ticker has just saved its row.
SnapshotRowSaved ==
    /\ md.pc = "rows" /\ md.ticker # 0
    /\ ~HolidayRow(md.row.MarketCap, md.row.TradingValue)
    /\ StockIn(md.ticker, md.market) # {}

C8_WitnessSnapshot ==
    /\ SnapshotRowSaved /\ md.next <= NumStocks
    /\ MarketDataAt(md.next, md.date) # {}

\* --------------------------------------------------------- batch claims
\* C1: a batch run in which the price source failed for exactly one stock
\* returns stocks_processed = N, stocks_success = N - 1, stocks_failed = 1
\* and one entry in errors.
C1_OneProviderErrorIsOneFailure ==
    (batch.pc = "returned" /\ batch.provider_errors = 1) =>
        /\ batch.stocks_processed = Len(batch.queue)
        /\ batch.stocks_success = Len(batch.queue) - 1
        /\ batch.stocks_failed = 1
        /\ batch.errors = 1

\* The persisted trade dates of a stock.
PersistedDates(ticker) ==
    {r.trade_date : r \in {x \in Rows(stock_prices) : x.stock_id = ticker}}

\* C6: the iteration for a stock asks the price source for the days D+1
\* .. today when the run is incremental and D is the stock's latest
\* persisted trade_date (so no day <= D is asked for), and for the days
\* today-365 .. today when the stock has no persisted price or the run is
\* a full one.
C6_IncrementalWindow ==
    [][ (batch'.idx = batch.idx + 1 /\ batch'.stocks_failed = batch.stocks_failed)
          => LET ticker == batch.queue[batch'.idx]
                 persisted == PersistedDates(ticker)
             IN /\ pr'.ticker = ticker
                /\ pr'.todate = today
                /\ IF batch.incremental /\ persisted # {}
                   THEN /\ pr'.fromdate = Max(persisted) + 1
                        /\ \A d \in persisted : d < pr'.fromdate
                   ELSE pr'.fromdate = today - FullWindowDays ]_vars

\* An incremental run on day 2 has asked for day 2 .. 2 for a stock whose
\* latest persisted day was 1, and saved the one bar of the answer.
C6_Witness ==
    /\ batch.pc = "loop" /\ batch.incremental /\ batch.idx >= 1
    /\ pr.ticker = batch.queue[batch.idx]
    /\ pr.fromdate = 2 /\ pr.todate = today /\ today = 2
    /\ pr.outcome = "saved" /\ pr.ret = 1
    /\ PersistedDates(pr.ticker) = {1, 2}

\* --------------------------------------------------------- ratio claims
\* The last call succeeded, for the statements it processed.
ComputedStatements ==
    IF rc.pc = "returned" /\ rc.status = "success"
    THEN StatementsOf(rc.ticker, rc.fiscal_year) ELSE {}

RatioRowsOf(st) ==
    RatiosAt(financial_ratios, st.stock_id,
             TargetDate(st.fiscal_year, st.fiscal_quarter),
             ReportType(st.fiscal_quarter))

\* C7: financial_ratios holds at most one row per (stock, fiscal_date,
\* report_type) after any sequence of calculate_and_save_for_stock calls,
\* and exactly one for each statement a call has processed, whether the
\* call found the row or not.
C7_OneRatioRowPerKey ==
    /\ BagCardinality(financial_ratios)
          = Cardinality({<<r.stock_id, r.fiscal_date, r.report_type>>
                            : r \in Rows(financial_ratios)})
    /\ \A st \in ComputedStatements : Cardinality(RatioRowsOf(st)) = 1

\* A call has found the rows of both of its statements in the table.
C7_Witness ==
    /\ rc.pc = "returned" /\ rc.status = "success"
    /\ rc.total_statements = 2 /\ rc.found = 2
    /\ BagCardinality(financial_ratios) >= 2

\* C9: once a call has returned, and until a statement changes, the row of
\* each statement it processed holds, field by field, the stored form of
\* what the engine returns for the statement and the resolved snapshot,
\* NULL where the engine returns None.
C9_RowEqualsEngineOutput ==
    rc.current =>
        \A st \in ComputedStatements :
           \A mc \in MarketCaps(st.stock_id,
                                TargetDate(st.fiscal_year, st.fiscal_quarter)) :
              RatioRowsOf(st)
                 = {NewRatioRow(st.stock_id,
                                TargetDate(st.fiscal_year, st.fiscal_quarter),
                                ReportType(st.fiscal_quarter), Ratios(st, mc))}

\* C10: a call that repeats the call before it, no statement or snapshot
\* having changed in between, returns the same ratios and leaves
\* financial_ratios as it was.
C10_RepeatedCallChangesNothing ==
    [][ (rc'.current /\ rc'.repeat)
          => (rc'.out = rc.out /\ financial_ratios' = financial_ratios) ]_vars

\* A repeated call has returned for two statements, with a PER stored and
\* an operating margin left from an earlier computation.
C10_Witness ==
    /\ rc.current /\ rc.repeat /\ rc.found = 2
    /\ \E st \in ComputedStatements : \E r \in RatioRowsOf(st) :
          /\ r.pbr # NULL
          /\ st.operating_income = Num(0) /\ r.operating_margin # NULL

\* --------------------------------------------------------- engine claims
\* C11: calculate_per returns the quotient market_cap / net_income exactly
\* when net_income > 0 and -1000 <= quotient <= 10000 (both limits kept),
\* calculate_pbr and calculate_psr exactly when the denominator is > 0 and
\* -100 <= quotient <= 1000; in every other case the function returns null.
C11_ClosedSuppressionBounds ==
    (eng.call = "valuation" /\ eng.done) =>
        LET mc == eng.market_cap.v
            d == eng.denominator
            Kept(lo, hi) == d # NULL /\ d.v > 0
                            /\ lo * d.v <= mc /\ mc <= hi * d.v
            Is(r, lo, hi) == IF Kept(lo, hi)
                             THEN r # NULL /\ r.num = mc /\ r.den = d.v
                             ELSE r = NULL
        IN /\ Is(eng.per, -1000, 10000)
           /\ Is(eng.pbr, -100, 1000)
           /\ Is(eng.psr, -100, 1000)

\* A PER of exactly 10000 was returned, by a call whose PBR is suppressed.
C11_Witness ==
    /\ eng.call = "valuation" /\ eng.done
    /\ eng.market_cap = Num(20000) /\ eng.denominator = Num(2)
    /\ eng.per = Frac(20000, 2) /\ eng.pbr = NULL

\* C12: ROE, ROA, operating margin, net margin and debt ratio equal
\* numerator / denominator * 100 whenever both statement inputs are present
\* and the denominator is > 0, a zero or negative numerator included; they
\* are null only when the denominator is <= 0 or an input is absent.
C12_PercentWheneverDefined ==
    (eng.call = "statement" /\ eng.done) =>
        LET st == eng.statement
            Is(r, n, d) ==
                IF n # NULL /\ d # NULL /\ d.v > 0
                THEN r # NULL /\ r.num * d.v = n.v * 100 * r.den
                ELSE r = NULL
        IN /\ Is(eng.ratios.roe, st.net_income, st.total_equity)
           /\ Is(eng.ratios.roa, st.net_income, st.total_assets)
           /\ Is(eng.ratios.operating_margin, st.operating_income, st.revenue)
           /\ Is(eng.ratios.net_margin, st.net_income, st.revenue)
           /\ Is(eng.ratios.debt_ratio, st.total_liabilities, st.total_equity)

\* The statement fields a ratio is computed from.
StatementInputsOf(ratio) ==
    CASE ratio = "roe" -> {"net_income", "total_equity"}
      [] ratio = "roa" -> {"net_income", "total_assets"}
      [] ratio = "operating_margin" -> {"operating_income", "revenue"}
      [] ratio = "net_margin" -> {"net_income", "revenue"}
      [] ratio = "debt_ratio" -> {"total_liabilities", "total_equity"}
      [] ratio = "per" -> {"net_income"}
      [] ratio = "pbr" -> {"total_equity"}
      [] ratio = "psr" -> {"revenue"}

ValuationRatios == {"per", "pbr", "psr"}

\* C13: the eight ratios are independent.  A ratio keeps its value when a
\* statement field it does not use is missing or has any other value, and
\* the five statement ratios keep theirs when no snapshot is resolved;
\* without a snapshot PER, PBR and PSR are null.
C13_RatiosAreIndependent ==
    (eng.call = "statement" /\ eng.done) =>
        LET st == eng.statement
            mc == eng.market_cap
        IN /\ \A r \in RatioFields :
                \A g \in StatementFields \ StatementInputsOf(r) :
                   \A v \in {NULL, Num(0), Num(-1), Num(1)} :
                       Ratios([st EXCEPT ![g] = v], mc)[r] = eng.ratios[r]
           /\ \A r \in RatioFields \ ValuationRatios :
                \A c \in ResolvedCaps : Ratios(st, c)[r] = eng.ratios[r]
           /\ mc = NULL => \A r \in ValuationRatios : eng.ratios[r] = NULL

\* No snapshot and no revenue, and ROE, ROA and the debt ratio are computed.
C13_Witness ==
    /\ eng.call = "statement" /\ eng.done
    /\ eng.market_cap = NULL /\ eng.statement.revenue = NULL
    /\ eng.ratios.roe # NULL /\ eng.ratios.roa # NULL
    /\ eng.ratios.debt_ratio # NULL
    /\ eng.ratios.per = NULL /\ eng.ratios.net_margin = NULL

\* ----------------------------------------------------- resolution claims
\* The period end of the resolved call as a day number: 31 December for
\* an annual statement, 31 March, 30 June and 30 September for Q1 to Q3.
PeriodEnd ==
    (eng.fiscal_year - 1) * 365 +
        (CASE eng.fiscal_quarter = NULL -> 365
           [] eng.fiscal_quarter = Num(1) -> 31 + 28 + 31
           [] eng.fiscal_quarter = Num(2) -> 31 + 28 + 31 + 30 + 31 + 30
           [] eng.fiscal_quarter = Num(3) ->
                 31 + 28 + 31 + 30 + 31 + 30 + 31 + 31 + 30)

\* The stock's snapshots inside the closed window [period end - 90,
\* period end].
InWindow ==
    {r \in Rows(stock_market_data) :
        /\ r.stock_id = eng.stock_id
        /\ PeriodEnd - 90 <= r.trade_date /\ r.trade_date <= PeriodEnd}

\* The market_cap of the newest row of S, null when S is empty.
UsesNewestOf(S) ==
    IF S = {} THEN eng.market_cap = NULL
    ELSE \E r \in S : /\ \A o \in S : o.trade_date <= r.trade_date
                      /\ eng.market_cap = r.market_cap

\* C14 as stated: the market cap used is that of the security's snapshot
\* with the latest trade_date inside [period end - 90, period end], and
\* null when the window holds no snapshot of the security.
C14_LatestSnapshotInWindow ==
    (eng.call = "resolve" /\ eng.done) => UsesNewestOf(InWindow)

\* C14 amended: the market cap used is that of the security's snapshot
\* with the latest trade_date among the snapshots inside
\* [period end - 90, period end] that carry a market_cap; a snapshot
\* after the period end, more than 90 days before it, without a
\* market_cap or of another security is never used.
C14_LatestSnapshotWithCapInWindow ==
    (eng.call = "resolve" /\ eng.done) =>
        UsesNewestOf({r \in InWindow : r.market_cap # NULL})

\* The newest snapshot in the window carries no market_cap and the one of
\* the day before was used, with snapshots outside the window on both
\* sides.
C14_Witness ==
    /\ eng.call = "resolve" /\ eng.done /\ eng.stock_id = 1
    /\ eng.fiscal_quarter = Num(2)
    /\ \E r \in InWindow : r.trade_date = PeriodEnd /\ r.market_cap = NULL
    /\ \E r \in Rows(stock_market_data) :
          r.stock_id = 1 /\ r.trade_date = PeriodEnd + 1
    /\ \E r \in Rows(stock_market_data) :
          r.stock_id = 1 /\ r.trade_date = PeriodEnd - 91
    /\ eng.market_cap = CapOn(-1)

\* ----------------------------------------------------- normalizer claims
\* The field a row names: by the exact mapping, or else, for a row of the
\* income statement, by the first keyword its account name contains.
NamedField(row) ==
    IF ExactMapping(row.sj_div, row.account_nm) # "none"
    THEN ExactMapping(row.sj_div, row.account_nm)
    ELSE IF row.sj_div # "IS" THEN "none"
    ELSE IF Contains(row.account_nm, "revenue") THEN "revenue"
    ELSE IF Contains(row.account_nm, "operating_income")
    THEN "operating_income"
    ELSE IF Contains(row.account_nm, "net_income") THEN "net_income"
    ELSE "none"

Parses(row) == Amount(row.thstrm_amount) # ValueError

\* The rows of df, by position, that name field f with an amount that
\* parses.
RowsNaming(df, f) ==
    {i \in 1..Len(df) : NamedField(df[i]) = f /\ Parses(df[i])}

\* C15: the value kept for a field is the amount of the first row, in
\* input order, that maps to it; a later row mapping to the same field, by
\* exact match or by keyword, never overwrites it.
C15_FirstRowWins ==
    norm.done =>
        \A f \in ResultFields :
            IF RowsNaming(norm.df, f) = {} THEN norm.result[f] = NULL
            ELSE norm.result[f] =
                    Amount(norm.df[Min(RowsNaming(norm.df, f))].thstrm_amount)

\* A row that reaches a field through the keyword fallback only.
KeywordRow(row, f) ==
    /\ ExactMapping(row.sj_div, row.account_nm) = "none"
    /\ NamedField(row) = f

KeywordFields == {"revenue", "operating_income", "net_income"}

\* C16: of the rows of one call that map to the same field through the
\* keyword fallback (with amounts that parse), only the first in input
\* order sets the field; every later one leaves the field as it found it.
\* Without an exact-match row for the field, the result holds the first
\* one's amount.
C16_FirstKeywordRowWins ==
    norm.done =>
        \A f \in KeywordFields :
            LET df == norm.df
                kw == {i \in 1..Len(df) :
                          KeywordRow(df[i], f) /\ Parses(df[i])}
                Before(i) == parse_financial_data(SubSeq(df, 1, i - 1))
                After(i) == parse_financial_data(SubSeq(df, 1, i))
            IN /\ \A i \in kw :
                    IF \E j \in kw : j < i
                    THEN After(i) = Before(i)
                    ELSE Before(i)[f] = NULL =>
                            After(i)[f] = Amount(df[i].thstrm_amount)
               /\ (kw # {} /\ RowsNaming(df, f) = kw) =>
                    norm.result[f] = Amount(df[Min(kw)].thstrm_amount)

\* Two keyword rows for revenue with different amounts: the first is kept.
C16_Witness ==
    /\ norm.done /\ Len(norm.df) >= 2
    /\ KeywordRow(norm.df[1], "revenue") /\ KeywordRow(norm.df[2], "revenue")
    /\ norm.df[1].thstrm_amount = "1,000" /\ norm.df[2].thstrm_amount = "250"
    /\ norm.result.revenue = Num(1000)

\* The category the mapping table assigns to a field.
CategoryOf(f) ==
    IF f \in {"revenue", "operating_income", "net_income", "ebitda"}
    THEN "IS"
    ELSE IF f \in {"total_assets", "total_liabilities", "total_equity"}
    THEN "BS"
    ELSE "CF"

Mapped(row) == NamedField(row) # "none"

\* C17: the keyword fallback is scoped to the income statement.  A row of
\* another category without an exact-mapping entry sets no field, even if
\* its account name contains a keyword; a field that is set was set by a
\* row of the field's own category; dropping the unmapped rows from the
\* input changes nothing.
C17_FallbackIsCategoryScoped ==
    norm.done =>
        LET df == norm.df
        IN /\ \A i \in 1..Len(df) :
                (df[i].sj_div # "IS"
                 /\ ExactMapping(df[i].sj_div, df[i].account_nm) = "none") =>
                    parse_financial_data(SubSeq(df, 1, i)) =
                        parse_financial_data(SubSeq(df, 1, i - 1))
           /\ \A f \in ResultFields :
                norm.result[f] # NULL =>
                    \E i \in 1..Len(df) :
                        /\ df[i].sj_div = CategoryOf(f)
                        /\ NamedField(df[i]) = f
                        /\ norm.result[f] = Amount(df[i].thstrm_amount)
           /\ norm.result = parse_financial_data(SelectSeq(df, Mapped))

\* A balance-sheet row whose name contains the revenue keyword was read
\* and revenue is unset, while a balance-sheet row set total_assets.
C17_Witness ==
    /\ norm.done
    /\ \E i \in 1..Len(norm.df) :
          norm.df[i] = [sj_div |-> "BS", account_nm |-> "OtherOperatingRevenue",
                        thstrm_amount |-> "1,000"]
    /\ norm.result.revenue = NULL
    /\ norm.result.total_assets = Num(250)

\* C18: a row whose amount string fails numeric parsing sets no field and
\* does not stop the loop: the result is the one of the same input with
\* the failing rows left out.
C18_BadAmountIsSkipped ==
    norm.done =>
        LET df == norm.df
        IN /\ \A i \in 1..Len(df) :
                ~Parses(df[i]) =>
                    parse_financial_data(SubSeq(df, 1, i)) =
                        parse_financial_data(SubSeq(df, 1, i - 1))
           /\ norm.result = parse_financial_data(SelectSeq(df, Parses))

\* The first row names revenue with an amount that does not parse, a later
\* row sets total_assets, and revenue is unset.
C18_Witness ==
    /\ norm.done /\ Len(norm.df) >= 2
    /\ norm.df[1] = [sj_div |-> "IS", account_nm |-> "OperatingRevenue",
                     thstrm_amount |-> "-"]
    /\ norm.df[2] = [sj_div |-> "BS", account_nm |-> "TotalAssets",
                     thstrm_amount |-> "1,000"]
    /\ norm.result.revenue = NULL
    /\ norm.result.total_assets = Num(1000)

\* --------------------------------------------------- last-write-wins claim
\* The price rows of the last call hold the bars of that call, field by
\* field, a missing value as null.
PriceRowsAreLastWrite ==
    pr.outcome = "saved" =>
        \A d \in DOMAIN pr.price_df :
            /\ PricesAt(stock_prices, pr.ticker, d) # {}
            /\ \A r \in PricesAt(stock_prices, pr.ticker, d) :
                  r = PriceRow(pr.ticker, d, pr.price_df[d])

\* C19: upserts on the same key are last-write-wins.  After a statement of
\* an existing (security, fiscal period) is collected again, the row holds
\* for every field the value of that collection, null included; after a
\* price bar of an existing (security, trade_date) is collected again, the
\* row holds the values of that bar.
C19_LastWriteWins ==
    [][ /\ \A t \in Tickers, y \in FiscalYears, q \in Quarters, d \in Reports :
             SaveFinancialUpdate(t, y, q, d) =>
                \A r \in StatementsAt(t, y, q)' :
                    \A f \in StatementFields : r[f] = d[f]
        /\ PriceRowsAreLastWrite' ]_vars

\* ----------------------------------------------------------- commit claim
\* C20: during every save operation of the collector (listings, market
\* snapshots, price bars of one security) the number of upserts applied
\* since the last commit never exceeds the chunk size of 100.
C20_AtMostOneChunkUncommitted ==
    tx.uncommitted <= 100

\* ------------------------------------------------------------ batch claims
\* C21: when the price source answers a stock's request with an empty
\* frame and no error, the iteration saves zero records, adds no entry to
\* errors, does not count the stock as failed (it counts as a success) and
\* leaves the persisted price rows unchanged.
C21_EmptyAnswerIsBenign ==
    [][ (BatchStock(FALSE) /\ pr'.outcome = "empty")
          => /\ pr'.ret = 0
             /\ batch'.prices_saved = batch.prices_saved
             /\ batch'.errors = batch.errors
             /\ batch'.stocks_failed = batch.stocks_failed
             /\ batch'.stocks_success = batch.stocks_success + 1
             /\ stock_prices' = stock_prices ]_vars

\* An iteration got an empty frame for a stock that has persisted bars.
C21_Witness ==
    /\ batch.pc = "loop" /\ batch.idx >= 1
    /\ pr.ticker = batch.queue[batch.idx] /\ pr.outcome = "empty"
    /\ PersistedDates(pr.ticker) # {}
    /\ batch.stocks_failed = 0 /\ batch.errors = 0
    /\ batch.stocks_success = batch.idx

\* --------------------------------------------------- statement batch
\* The listed stocks have their annual statements up to the year before
\* their ticker number; stock 1 has the first quarter of year 1 only.
CollectedSoFar ==
    UNION {{StatementRow(t, y, NULL, Loss) : y \in {x \in BatchYears : x < t}}
              : t \in Tickers}
       \cup {StatementRow(1, 1, Num(1), Loss)}

\* Ticker 0 is not listed.
TickerLists == {<<>>} \cup {[i \in 1..(NumStocks + 1 - k) |-> k + i - 1]
                               : k \in 0..NumStocks}

InitStatementBatch ==
    /\ stocks = {[ticker |-> t, market |-> "KOSPI", country |-> "KR"] : t \in Tickers}
    /\ financial_statements = CollectedSoFar
    /\ stock_market_data = EmptyBag
    /\ stock_prices = EmptyBag
    /\ today = SnapDays
    /\ md = MdIdle
    /\ pr = PrIdle
    /\ batch = BatchIdle
    /\ financial_ratios = EmptyBag
    /\ rc = RcIdle
    /\ eng = EngIdle
    /\ norm = NormIdle
    /\ tx = TxIdle
    /\ SvcIdle

\* What the requests of the years start_year..end_year can meet; no request
\* is made for another year.
RequestAnswers ==
    {a \in [BatchYears -> YearAnswers] :
        \A y \in BatchYears \ (fb.start_year..fb.end_year) : a[y] = NoReport}

\* A behaviour is one batch and its repetitions with the same arguments.
NextStatementBatch ==
    \/ fb.pc = "idle" /\ \E tickers \in TickerLists, start_year \in BatchYears,
                            end_year \in BatchYears, skip_existing \in BOOLEAN,
                            incremental \in BOOLEAN :
          FbBegin(tickers, start_year, end_year, skip_existing, incremental)
    \/ fb.pc = "done" /\ FbBegin(fb.tickers, fb.start_year, fb.end_year,
                                 fb.skip_existing, fb.incremental)
    \/ \E db_fails \in BOOLEAN, answers \in RequestAnswers :
          FbStock(db_fails, answers)
    \/ FbReturn

SpecStatementBatch == InitStatementBatch /\ [][NextStatementBatch]_vars

\* -------------------------------------------------- statement batch claims
\* C22 (as stated): a stock for which the disclosure service had no report
\* in any of the requested years is counted in stocks_failed, not in
\* stocks_success or stocks_skipped.
C22_AllFetchesFailedIsFailure ==
    [][ (/\ FbStock(FALSE, [y \in BatchYears |-> NoReport])
         /\ fb'.calls # {} /\ fb'.refused = fb'.requested)
          => /\ fb'.stocks_failed = fb.stocks_failed + 1
             /\ fb'.stocks_success = fb.stocks_success
             /\ fb'.stocks_skipped = fb.stocks_skipped ]_vars

\* ------------------------------------------------------------- queries
\* A report with negative income and negative equity.
Deficit ==
    [revenue |-> Num(200), operating_income |-> Num(0), net_income |-> Num(-30),
     total_assets |-> Num(300), total_liabilities |-> Num(350),
     total_equity |-> Num(-50)]

\* What a stock starts from: its annual statement of year 1 and the
\* market_cap of its snapshots, NULL for a stock without snapshots.
QueryProfiles ==
    {[data |-> Healthy, cap |-> Num(100)], [data |-> Healthy, cap |-> Num(30000)],
     [data |-> Deficit, cap |-> Num(30000)], [data |-> Healthy, cap |-> NULL]}

\* Stocks 1 and 2 start from any profile, the others from a healthy
\* statement and a snapshot.  Stock 1 also has the first quarter of year 2;
\* the snapshots are on the period ends.
InitQuery ==
    /\ stocks = {[ticker |-> t, market |-> "KOSPI", country |-> "KR"] : t \in Tickers}
    /\ \E profile \in {p \in [Tickers -> QueryProfiles] :
                          \A t \in Tickers \ {1, 2} :
                             p[t] = [data |-> Healthy, cap |-> Num(100)]} :
          /\ financial_statements =
                {StatementRow(t, 1, NULL, profile[t].data) : t \in Tickers}
                   \cup {StatementRow(1, 2, Num(1), Loss)}
          /\ stock_market_data =
                SetToBag({[stock_id |-> t, trade_date |-> TargetDate(st.fiscal_year, st.fiscal_quarter),
                           market_cap |-> profile[t].cap,
                           trading_value |-> Num(3), shares_outstanding |-> Num(7)]
                            : t \in {x \in Tickers : profile[x].cap # NULL},
                              st \in {[fiscal_year |-> 1, fiscal_quarter |-> NULL],
                                      [fiscal_year |-> 2, fiscal_quarter |-> Num(1)]}})
    /\ stock_prices = EmptyBag
    /\ today = SnapDays
    /\ md = MdIdle
    /\ pr = PrIdle
    /\ batch = BatchIdle
    /\ financial_ratios = EmptyBag
    /\ rc = RcIdle
    /\ eng = EngIdle
    /\ norm = NormIdle
    /\ tx = TxIdle
    /\ SvcIdle

Preset(kind, bounds) ==
    [kind |-> kind, market |-> NULL, min_market_cap_preset |-> NULL,
     limit |-> 50] @@ bounds

Custom(min, max, min_market_cap, max_market_cap, sector, sort_by, sort_order,
       limit) ==
    [kind |-> "custom", market |-> NULL, min_market_cap_preset |-> NULL,
     min |-> min @@ [f \in BoundedFields |-> NULL],
     max |-> max @@ [f \in BoundedFields |-> NULL],
     min_market_cap |-> min_market_cap, max_market_cap |-> max_market_cap,
     sector |-> sector, sort_by |-> sort_by, sort_order |-> sort_order,
     limit |-> limit]

NoBounds == [f \in {} |-> NULL]

Requests ==
    {Preset("undervalued", [max_per |-> Units(p), max_pbr |-> Units(b)])
        : p \in {10, 2000}, b \in {1, 200}}
    \cup {Preset("quality", [min_roe |-> Units(r), max_debt_ratio |-> Units(d)])
        : r \in {15, -100}, d \in {100, 600}}
    \cup {Preset("growth", [min_roe |-> Units(r), max_per |-> Units(p)])
        : r \in {10, -100}, p \in {30, 2000}}
    \cup {[Preset("quality", [min_roe |-> Units(-100),
                               max_debt_ratio |-> Units(600)])
              EXCEPT !.market = Num("KOSDAQ")],
          [Preset("growth", [min_roe |-> Units(-100), max_per |-> Units(2000)])
              EXCEPT !.min_market_cap_preset = Num(1)],
          Custom(NoBounds, NoBounds, NULL, NULL, NULL, "roe", "desc", 50),
          Custom(NoBounds, NoBounds, NULL, NULL, NULL, "per", "asc", 1),
          Custom([per |-> Num(Units(-5000))], NoBounds, NULL, NULL, NULL,
                 "per", "asc", 50),
          Custom(NoBounds, [pbr |-> Num(Units(1))], NULL, NULL, NULL,
                 "market_cap", "desc", 50),
          Custom([roe |-> Num(Units(-100))], [debt_ratio |-> Num(Units(600))],
                 Num(0), Num(1), NULL, "debt_ratio", "asc", 50),
          Custom(NoBounds, NoBounds, NULL, NULL, [v |-> "Sector"], "roe",
                 "desc", 50)}

\* The ratios are calculated stock by stock; a query leaves what an earlier
\* query returned behind, and ratios calculated after a query are queried
\* again.
NextQuery ==
    \/ \E t \in Tickers : /\ \A r \in Rows(financial_ratios) : r.stock_id # t
                          /\ CalculateAndSaveForStock(t, NULL)
    \/ GenerateQualityReport
    \/ \E req \in Requests : Screen(req)
    \/ \E limit_per_sector \in {1, 5} : CompareBySector(limit_per_sector)

SpecQuery == InitQuery /\ [][NextQuery]_vars

\* ---------------------------------------------------------- quality claims
\* The score of the formula, in hundredths, from the counts of a report.
FormulaScore(report) ==
    LET total_checked == report.anomalies.total_checked
        total_anomalies == report.anomalies.extreme_values
                              + report.anomalies.negative_values
                              + report.anomalies.high_null_ratio
        total_stocks == report.completeness.total_stocks
        total_missing == report.missing_data.total_no_fs
                            + report.missing_data.total_no_mc
        c == IF total_checked > 0 THEN total_checked ELSE 1
        t == IF total_stocks > 0 THEN total_stocks ELSE 1
        clean == IF total_checked > 0 THEN total_checked - total_anomalies ELSE 1
        present == IF total_stocks > 0 THEN total_stocks - total_missing ELSE 1
    IN  Round2(report.completeness.ratios_coverage * 5 * c * t
                  + 30000 * clean * t + 20000 * present * c,
               1000 * c * t)

\* C23 (as stated): the quality score of every report is 0.5 x the ratio
\* coverage rate + 0.3 x (100 - anomaly rate) + 0.2 x (100 - missing rate),
\* lies in [0, 100] and is graded at 90 / 80 / 70 / 60.
C23_ScoreIsWeightedSum ==
    qs.op = "generate_quality_report" =>
       /\ qs.result.report.quality_score = FormulaScore(qs.result.report)
       /\ qs.result.report.quality_score \in 0..10000
       /\ qs.result.report.data_quality = get_quality_grade(qs.result.report.quality_score)

\* The part of C23 that holds: the score lies in [0, 100] and the grade
\* follows the thresholds.
ScoreInRangeAndGraded ==
    qs.op = "generate_quality_report" =>
       LET score == qs.result.report.quality_score IN
       /\ score \in 0..10000
       /\ qs.result.report.data_quality = "A (Excellent)" <=> score >= 9000
       /\ qs.result.report.data_quality = "B (Good)" <=> score \in 8000..8999
       /\ qs.result.report.data_quality = "C (Fair)" <=> score \in 7000..7999
       /\ qs.result.report.data_quality = "D (Poor)" <=> score \in 6000..6999
       /\ qs.result.report.data_quality = "F (Critical)" <=> score < 6000

\* A stored value outside the bounds within which the engine keeps a
\* valuation ratio.
EngineSuppresses(field, value) ==
    CASE field = "per" -> value.v < Units(PerMin) \/ value.v > Units(PerMax)
      [] field = "pbr" -> value.v < Units(PbrMin) \/ value.v > Units(PbrMax)
      [] field = "psr" -> value.v < Units(PsrMin) \/ value.v > Units(PsrMax)

\* C24 (as stated): check_ratio_anomalies flags a PER, PBR or PSR as extreme
\* exactly when the engine would have suppressed the value, so that no
\* value the engine stored is flagged.
C24_ExtremeIffSuppressed ==
    qs.op = "generate_quality_report" =>
       \A t \in DOMAIN qs.result.report.anomalies.extreme :
          \A f \in ValuationRatios :
             LatestRatio(t)[f] # NULL =>
                /\ f \in qs.result.report.anomalies.extreme[t]
                      <=> EngineSuppresses(f, LatestRatio(t)[f])
                /\ f \notin qs.result.report.anomalies.extreme[t]

\* --------------------------------------------------------- screener claims
\* The newest annual FinancialRatio rows of a stock.
LatestAnnualRows(ticker) ==
    LET annual == {r \in Rows(financial_ratios) :
                      r.stock_id = ticker /\ r.report_type = "annual"}
    IN  {r \in annual : \A o \in annual : o.fiscal_date <= r.fiscal_date}

\* The market_cap of the newest snapshots of a stock, NULL without one.
LatestCaps(ticker) ==
    LET rows == {r \in Rows(stock_market_data) : r.stock_id = ticker}
    IN  IF rows = {} THEN {NULL}
        ELSE {r.market_cap :
                 r \in {x \in rows : \A o \in rows : o.trade_date <= x.trade_date}}

\* The bounds of a request, on a ratio row and a market_cap.
InBounds(r, market_cap, req) ==
    CASE req.kind = "undervalued" ->
            /\ r.per # NULL /\ r.per.v > 0 /\ r.per.v <= req.max_per
            /\ r.pbr # NULL /\ r.pbr.v > 0 /\ r.pbr.v <= req.max_pbr
      [] req.kind = "quality" ->
            /\ r.roe # NULL /\ r.roe.v >= req.min_roe
            /\ r.debt_ratio # NULL /\ r.debt_ratio.v <= req.max_debt_ratio
      [] req.kind = "growth" ->
            /\ r.roe # NULL /\ r.roe.v >= req.min_roe
            /\ r.per # NULL /\ r.per.v > 0 /\ r.per.v <= req.max_per
      [] req.kind = "custom" ->
            /\ \A f \in BoundedFields :
                  /\ req.min[f] # NULL => r[f] # NULL /\ r[f].v >= req.min[f].v
                  /\ req.max[f] # NULL => r[f] # NULL /\ r[f].v <= req.max[f].v
            /\ req.min_market_cap # NULL =>
                  /\ market_cap # NULL
                  /\ market_cap.v >= req.min_market_cap.v * CapUnit
            /\ req.max_market_cap # NULL =>
                  /\ market_cap # NULL
                  /\ market_cap.v <= req.max_market_cap.v * CapUnit

\* ROE / PER of the first row is at least that of the second.
GrowthAtLeast(r, o) ==
    LET a == Quotient(r.roe.v, r.per.v)
        b == Quotient(o.roe.v, o.per.v)
    IN  a.num * b.den >= b.num * a.den

\* C25: every row a screen returns belongs to a stock whose latest annual
\* ratio row satisfies every bound of the request (with the positivity of
\* PER and PBR in the presets), a null in a bounded field keeps the stock
\* out, and the rows of the growth preset come in descending ROE / PER.
C25_ScreenedRowsSatisfyBounds ==
    (qs.op = "screen" /\ qs.storage = Storage) =>
       /\ \A i \in DOMAIN qs.result.rows :
             /\ LatestAnnualRows(qs.result.rows[i].ticker) # {}
             /\ \A r \in LatestAnnualRows(qs.result.rows[i].ticker) :
                   /\ qs.result.rows[i].fiscal_date = r.fiscal_date
                   /\ \E m \in LatestCaps(qs.result.rows[i].ticker) :
                         InBounds(r, m, qs.args)
       /\ qs.args.kind = "growth" =>
             \A i, j \in DOMAIN qs.result.rows :
                i < j => \A r \in LatestAnnualRows(qs.result.rows[i].ticker),
                            o \in LatestAnnualRows(qs.result.rows[j].ticker) :
                            GrowthAtLeast(r, o)

\* The growth preset has returned two stocks, the second stock first, and
\* the first stock has a quarterly row newer than its annual row.
C25_Witness ==
    /\ qs.op = "screen" /\ qs.storage = Storage
    /\ qs.args.kind = "growth" /\ Len(qs.result.rows) = 2
    /\ qs.result.rows[1].ticker = 2 /\ qs.result.rows[2].ticker = 1
    /\ \E r \in Rows(financial_ratios) :
          /\ r.stock_id = 1 /\ r.report_type = "Q1"
          /\ \A o \in LatestAnnualRows(1) : o.fiscal_date < r.fiscal_date

NextOverlap ==
    \/ \E run \in Runs, isolation \in Isolations, t \in {1} :
          /\ \A other \in Runs : ov[other].pc # "idle" => ov[other].isolation = isolation
          /\ \E a \in Answers(1, RequestTo, Bars) : OvBegin(run, isolation, t, a)
    \/ \E run \in Runs : OvCheck(run)
    \/ \E run \in Runs : OvWrite(run)
    \/ \E run \in Runs : OvCommit(run)
    \/ (\A run \in Runs : ov[run].pc = "idle") /\ Tick(PriceDays)

InitOverlap ==
    /\ stocks = {[ticker |-> t, market |-> "KOSPI", country |-> "KR"] : t \in Tickers}
    /\ financial_statements = {}
    /\ stock_market_data = EmptyBag
    /\ stock_prices = EmptyBag
    /\ today = 1
    /\ md = MdIdle
    /\ pr = PrIdle
    /\ batch = BatchIdle
    /\ financial_ratios = EmptyBag
    /\ rc = RcIdle
    /\ eng = EngIdle
    /\ norm = NormIdle
    /\ tx = TxIdle
    /\ SvcIdle

SpecOverlap == InitOverlap /\ [][NextOverlap]_vars

\* C27 (as stated): when two runs of the collection overlap, each in its
\* own session, and both upsert the same (stock, trade_date), stock_prices
\* still holds at most one row for that key, whatever the order of the two
\* runs' existence checks, inserts and commits.
C27_OverlapLeavesOneRow ==
    OnePerStockAndDate(stock_prices)

\* ------------------------------------------------------- high-water mark
\* Runs over the first listed stock, the price source now and then
\* returning a bar that cannot be converted.
NextGap ==
    \/ \E m \in Markets, i \in BOOLEAN : BatchBegin(m, i, Num(1), Tickers)
    \/ BatchStockWith(FALSE, GapBars)
    \/ BatchReturn
    \/ batch.pc # "loop" /\ Tick(PriceDays)

SpecGap == Init /\ [][NextGap]_vars
\* The latest persisted trade_date of a stock, 0 when it has no bar.
HighWaterMark(ticker) ==
    IF PersistedDates(ticker) = {} THEN 0 ELSE Max(PersistedDates(ticker))

\* C28 (as stated): a stock's high-water mark never decreases, and whenever
\* a collection moves it from D to D', every bar the price source returned
\* to that collection for a date in (D, D'] is persisted, so no bar whose
\* save failed is left behind a later persisted bar.
C28_NoPermanentGap ==
    [][ \A t \in Tickers :
          /\ HighWaterMark(t)' >= HighWaterMark(t)
          /\ (HighWaterMark(t)' > HighWaterMark(t) /\ pr'.ticker = t) =>
                \A d \in DOMAIN pr'.price_df :
                    (HighWaterMark(t) < d /\ d <= HighWaterMark(t)') =>
                        PricesAt(stock_prices', t, d) # {} ]_vars

\* -------------------------------------------------------- batch counters
\* The three batch collectors share no counter; a behaviour is the runs of
\* one of them, all on one day.
NextCounters ==
    \/ \E m \in Markets, i \in BOOLEAN, k \in MaxStocks :
          fb = FbIdle /\ us = UsIdle /\ BatchBegin(m, i, k, Tickers)
    \/ \E f \in BOOLEAN : BatchStock(f)
    \/ BatchReturn
    \/ batch = BatchIdle /\ us = UsIdle /\ NextStatementBatch
    \/ \E tickers \in UsTickerLists, collect_all \in BOOLEAN, incremental \in BOOLEAN :
          fb = FbIdle /\ batch = BatchIdle /\ UsBegin(tickers, collect_all, incremental)
    \/ \E db_fails \in BOOLEAN, info_found \in BOOLEAN :
          \E answer \in Answers(1, RequestTo, BatchBars) \cup Answers(2, RequestTo, BatchBars) :
             UsStock(db_fails, info_found, answer)
    \/ UsReturn

SpecCounters == InitStatementBatch /\ [][NextCounters]_vars

\* The counters of the three collectors add up.
CountersAddUp ==
    /\ batch.stocks_processed = batch.stocks_success + batch.stocks_failed
    /\ batch.errors >= batch.stocks_failed
    /\ us.stocks_processed = us.stocks_success + us.stocks_failed
    /\ us.errors >= us.stocks_failed
    /\ fb.stocks_processed
          = fb.stocks_success + fb.stocks_failed + fb.stocks_skipped
    /\ batch.pc = "returned" => batch.stocks_processed = Len(batch.queue)
    /\ us.pc = "returned" => us.stocks_processed = Len(us.tickers)
    /\ fb.pc = "done" => fb.stocks_processed = Len(fb.tickers)

\* C29: the batch counters partition the processed stocks.  When
\* collect_korea_batch or collect_us_batch returns, stocks_processed =
\* stocks_success + stocks_failed and errors has at least stocks_failed
\* entries; when collect_batch returns, stocks_processed = len(tickers) =
\* stocks_success + stocks_failed + stocks_skipped; and every iteration of
\* collect_batch counts its stock in exactly one of the three.
C29_CountersPartition ==
    [][ /\ CountersAddUp'
        /\ fb'.idx = fb.idx + 1 =>
              /\ fb'.stocks_success >= fb.stocks_success
              /\ fb'.stocks_failed >= fb.stocks_failed
              /\ fb'.stocks_skipped >= fb.stocks_skipped ]_vars

\* collect_batch has returned from three tickers: one unlisted (failed),
\* one whose requests met no report (skipped), one whose year was there
\* and skipped by skip_existing (skipped, its success flag set as well).
C29_Witness ==
    /\ fb.pc = "done" /\ Len(fb.tickers) = 3 /\ fb.skip_existing
    /\ fb.stocks_failed = 1 /\ fb.stocks_skipped = 2 /\ fb.statements_skipped = 1

\* ---------------------------------------------------- statement re-fetch
\* C30: an iteration of collect_batch never asks the disclosure service
\* for what is stored.  With skip_existing it makes no call for a year of
\* which the stock has an annual statement; in incremental mode it makes no
\* call for a year up to the stock's latest annual fiscal_year, and when
\* that year + 1 is past end_year it makes no call at all and counts the
\* stock as skipped (unless the stock query failed); so when the batch
\* asks for the years start_year..end_year, start_year <= end_year, and the
\* stock has them all stored, the iteration makes no call and changes no
\* row.
C30_NeverRefetches ==
    [][ fb'.idx = fb.idx + 1 =>
          LET ticker == fb'.ticker
              latest == get_latest_financial_year(financial_statements, ticker)
              stored == {y \in BatchYears :
                            StatementsIn(financial_statements, ticker, y, NULL) # {}}
          IN  /\ fb.skip_existing => fb'.calls \cap stored = {}
              /\ (fb.incremental /\ latest # NULL) =>
                    /\ \A y \in fb'.calls : y > latest.v
                    /\ latest.v + 1 > fb.end_year =>
                          /\ fb'.calls = {}
                          /\ fb'.stocks_failed = fb.stocks_failed =>
                                fb'.stocks_skipped = fb.stocks_skipped + 1
              /\ (/\ fb.skip_existing \/ fb.incremental
                  /\ fb.start_year <= fb.end_year
                  /\ (fb.start_year..fb.end_year) \subseteq stored) =>
                    /\ fb'.calls = {}
                    /\ financial_statements' = financial_statements ]_vars

\* The batch is being repeated with the same arguments, skip_existing set,
\* after a run that left nothing to fetch: the stock just processed has all
\* requested years stored, its years were skipped and no call was made.
C30_Witness ==
    /\ fb.repeat /\ fb.pc = "loop" /\ fb.idx >= 1
    /\ fb.skip_existing /\ ~fb.incremental
    /\ fb.start_year <= fb.end_year
    /\ \A y \in fb.start_year..fb.end_year :
          StatementsIn(financial_statements, fb.ticker, y, NULL) # {}
    /\ fb.statements_skipped >= 1 /\ fb.calls = {}

====
